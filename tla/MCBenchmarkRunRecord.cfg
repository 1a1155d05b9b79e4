\* Timeline.Record's assertion under run() racing Terminate()
SPECIFICATION Spec
INVARIANT RecordedOnce
CHECK_DEADLOCK FALSE
