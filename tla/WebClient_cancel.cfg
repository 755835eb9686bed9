\* The caller may drop new's future while it waits for the open event, as a
\* timeout around new would.  The program may stop once new has returned or
\* been dropped, so deadlock is not checked.
SPECIFICATION Spec
INVARIANT OpenSendNeverPanics
CHECK_DEADLOCK FALSE
