SPECIFICATION Spec
CONSTANT Configs <- MCConfigs
INVARIANT MirrorSymmetric
INVARIANT NotTwice
INVARIANT AnswersSound
CHECK_DEADLOCK FALSE
