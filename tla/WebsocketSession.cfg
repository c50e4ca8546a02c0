CONSTANTS
  Message = {update, error}
  MaxMessages = 5
SPECIFICATION FairSpec
INVARIANTS TypeOK OneWriteOfTheFront
PROPERTIES InOrder NothingAfterFailure SentIsDelivered ClosedLeaves
\* A session ends: it is destroyed, or nothing more is looked at.
CHECK_DEADLOCK FALSE
