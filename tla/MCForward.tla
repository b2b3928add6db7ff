----------------------------- MODULE MCForward -----------------------------
EXTENDS Forward

\* A schedule that starts with a full layer, as the default one does, and one
\* whose first layer has no selection to share.
MCSchedules == {{0, 2}, {1}}
=============================================================================
