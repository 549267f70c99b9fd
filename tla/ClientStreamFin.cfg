\* spec §8.3: the FIN is always signalled by one final empty read.
CONSTANTS
    MaxBytes <- MCMaxBytes
    ReadHeadroom <- MCReadHeadroom

SPECIFICATION Spec

PROPERTY FinSignalled

CHECK_DEADLOCK FALSE
