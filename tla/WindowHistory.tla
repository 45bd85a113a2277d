---------------------------- MODULE WindowHistory ----------------------------
(***************************************************************************)
(* What the documents and the tests of the repository say of the windows   *)
(* table, stated over WindowStore; the README says how each is checked and *)
(* discusses the histories TLC answers with.                               *)
(***************************************************************************)
EXTENDS WindowStore

\* The windows a store that sees all the observations at once would compute:
\* the same replay with no table to preserve anything from.
LastOf(items) == CHOOSE x \in items : \A y \in items \ {x} : Before(y, x)

ReplayUpTo(all) ==
  LET after[done \in SUBSET all] ==
        IF done = {} THEN EmptyReplay
        ELSE ReplayItem(after[done \ {LastOf(done)}], LastOf(done), {}, InitCalibration)
  IN  after

FullReplay(items) ==
  LET all == {Backfilled(o, items) : o \in items}
  IN  ReplayUpTo(all)[all]

\* tests/persistence.rs:285 asserts that each window of the history ends
\* before the next one starts, for ambiguous and missing evidence too.
WindowsDoNotOverlap ==
  \A w, v \in windows : w.start < v.start => w.end <= v.start

\* README.md:264: missing reset timestamps and early changes are labelled
\* ambiguous; they are never a reason for the whole ingest to be refused.
RebuildNeverRefused ==
  Replayed => ~tx.replay.clash

\* src/main.rs:180: "The next observation starts a new one", so a rebuild that
\* reads no observation it did not know makes no archived window current.
OnlyNewUsageReturns ==
  [][tx # None /\ tx' = None /\ tx.stored = stored /\ CurrentRows(windows) = {}
       => CurrentRows(windows') = {}]_vars

\* src/persistence.rs:443 records a manual reset as "window ... shortened
\* from" its previous end: it never moves the end of a window later.
ResetOnlyShortens ==
  [][resets' # resets =>
       \A w \in windows, v \in windows' : w.start = v.start => v.end <= w.end]_vars

\* tests/persistence.rs:737 and :82: ingesting what is already stored is
\* idempotent, the rebuild finds the windows it wrote the time before.
RebuildIsIdempotent ==
  [][tx # None /\ tx' = None /\ tx.stored = stored /\ resets = {}
       => windows' = windows]_vars

\* tests/persistence.rs:371: incremental ingestion ends with the windows of a
\* full replay.  (Manual resets and calibrations aside, which a full replay
\* of the transcripts cannot know.)
IncrementalEqualsFull ==
  resets = {} /\ profile = InitCalibration =>
    windows = FinalRows(FullReplay(stored))

\* README.md:265: delayed observations from a superseded epoch are ignored.
SupersededIgnored ==
  \A o, p \in stored :
    /\ {o.id, p.id} \subseteq metered
    /\ Before(p, o)
    /\ p.five # None /\ o.five # None
    /\ p.five.reset # None /\ o.five.reset # None
    => o.five.reset >= p.five.reset - Jitter
=============================================================================
