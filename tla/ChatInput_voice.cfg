SPECIFICATION InputFairSpec
CONSTANTS
    File = {f1}
    MaxRecordings = 3
INVARIANTS OneRecording AttachmentsKept
 
CHECK_DEADLOCK FALSE
