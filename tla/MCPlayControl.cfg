CONSTANT SubmitAfterPause = FALSE
SPECIFICATION FairSpec
INVARIANTS NeverStuck MusicFollows KeptIsOwn
PROPERTIES MarksStay RetryHappens
