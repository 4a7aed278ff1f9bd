----------------------------- MODULE MCEventsAPI -----------------------------
\* Instances of EventsAPI for TLC.
EXTENDS EventsAPI

EventIds == 1..3
=============================================================================
