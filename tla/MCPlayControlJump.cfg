CONSTANT SubmitAfterPause = TRUE
SPECIFICATION Spec
INVARIANTS JumpIsRetry
