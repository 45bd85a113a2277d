----------------------------- MODULE DisplayFeed -----------------------------
(***************************************************************************)
(* What the state directory promises, whoever writes it: the database goes *)
(* through numbered versions, every publication of the display file shows  *)
(* the newest one (src/src/persistence.rs, ingest: "the file can only      *)
(* describe committed data"), and migrations are forward-only              *)
(* (README.md:234).                                                        *)
(***************************************************************************)
EXTENDS Naturals

VARIABLES
  version,  \* commits of the state database
  display,  \* the version the display file describes; 0 when there is no file
  schema    \* the schema of the database; 0 when there is none

feed == <<version, display, schema>>

Init == version = 0 /\ display = 0 /\ schema = 0

\* Only a database that has been set up takes commits.
Commit == schema # 0 /\ version' = version + 1 /\ UNCHANGED <<display, schema>>

Publish == display' = version /\ UNCHANGED <<version, schema>>

Upgrade == schema' \in Nat /\ schema' > schema /\ UNCHANGED <<version, display>>

Next == Commit \/ Publish \/ Upgrade

Spec == Init /\ [][Next]_feed

\* The file never describes what was not committed, and never goes back.
CommittedOnly == display <= version
NeverBackward == [][display' >= display /\ schema' >= schema]_feed
=============================================================================
