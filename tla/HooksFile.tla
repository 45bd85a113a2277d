------------------------------ MODULE HooksFile ------------------------------
(***************************************************************************)
(* hooks.json (src/src/hooks.rs, 245-476).  `install` and `uninstall` read *)
(* the whole file, change their own handlers in it, save what the file     *)
(* then holds as a backup and rename a new file over it.  There is no lock *)
(* between the steps, and the file belongs to the user, whose editor and   *)
(* other tools save it too.                                                *)
(*                                                                         *)
(* A file is Missing, Malformed, or has hooks: Absent, Odd (not an object) *)
(* or, by event, Absent, Odd (not an array) or a sequence of groups.  The  *)
(* handlers of a group are a sequence, or Absent.                          *)
(***************************************************************************)
EXTENDS Integers, Sequences, FiniteSets

CONSTANTS
  Processes,
  Events,       \* SessionStart, UserPromptSubmit, Stop
  Executables,  \* the places codex-watch is installed from
  Others,       \* handlers of the user and of other tools
  Missing, Malformed, Absent, Odd,
  InitialFiles, \* what the file may be before codex-watch touches it
  Edits,        \* what an editor may save
  MaxCommands   \* bound: commands and edits

Handlers == Executables \cup Others
Groups   == [hooks : Seq(Handlers) \cup {Absent}]
Hooks    == [Events -> Seq(Groups) \cup {Absent, Odd}]
Files    == {Missing, Malformed} \cup [hooks : Hooks \cup {Absent, Odd}]

\* What a file, its hooks, an event or a group may lack is not one of those it
\* may have.
ASSUME FileAssumption ==
  /\ Absent \notin Seq(Handlers)
  /\ \A x \in {Absent, Odd} : x \notin Hooks /\ x \notin Seq(Groups)
  /\ \A x \in {Missing, Malformed} : x \notin [hooks : Hooks \cup {Absent, Odd}]
  /\ Executables \cap Others = {}
  /\ InitialFiles \cup Edits \subseteq Files
  /\ MaxCommands \in Nat

VARIABLES
  file,      \* hooks.json
  backup,    \* hooks.json.codex-watch.bak
  saved,     \* history: the file the user, not codex-watch, saved last
  overlapped, \* history: the user saved it while a command was under way
  commands,
  pc, local  \* where each process is, and the root it will write

vars == <<file, backup, saved, overlapped, commands, pc, local>>

Init ==
  /\ file \in InitialFiles
  /\ backup = Missing
  /\ saved = file
  /\ overlapped = FALSE
  /\ commands = 0
  /\ pc = [p \in Processes |-> "idle"]
  /\ local = [p \in Processes |-> Missing]

\* is_owned_handler: from whichever place it was installed.
Owned(handler) == handler \in Executables

\* Faulty variant: a group is dropped when one of its handlers is owned.
RemoveOwnedGroups(groups) ==
  SelectSeq(groups, LAMBDA g : g.hooks = Absent \/ ~ \E i \in DOMAIN g.hooks : Owned(g.hooks[i]))

\* Faulty variant: only the first group is searched.
RemoveOwnedFirst(groups) ==
  IF groups = <<>> \/ groups[1].hooks = Absent THEN groups
  ELSE [groups EXCEPT ![1].hooks = SelectSeq(@, LAMBDA h : ~Owned(h))]

NotOwned(handlers) ==
  LET kept[i \in 0..Len(handlers)] ==
        IF i = 0 THEN <<>>
        ELSE IF Owned(handlers[i]) THEN kept[i - 1]
        ELSE Append(kept[i - 1], handlers[i])
  IN  kept[Len(handlers)]

Rest(group) ==
  IF group.hooks = Absent THEN group ELSE [group EXCEPT !.hooks = NotOwned(@)]

\* remove_owned_handlers; a group left without handlers goes too.
RemoveOwned(groups) ==
  LET left[i \in 0..Len(groups)] ==
        IF i = 0 THEN <<>>
        ELSE IF Rest(groups[i]).hooks = <<>> THEN left[i - 1]
        ELSE Append(left[i - 1], Rest(groups[i]))
  IN  left[Len(groups)]

\* read_hooks_root: a missing file is an empty root, a malformed one an error.
Root(content) == IF content = Missing THEN [hooks |-> Absent] ELSE content

HooksOf(root) == IF root.hooks = Absent THEN [e \in Events |-> Absent] ELSE root.hooks

\* install_hooks fails on a file that it does not understand ...
Installable(content) ==
  IF content = Malformed THEN FALSE
  ELSE /\ Root(content).hooks # Odd
       /\ \A e \in Events : HooksOf(Root(content))[e] # Odd

\* Faulty variant: the handler is put beside the groups instead of into one.
InstalledBare(root, executable) ==
  [hooks |-> [e \in Events |-> Append(IF HooksOf(root)[e] = Absent THEN <<>>
                                      ELSE RemoveOwned(HooksOf(root)[e]), executable)]]

\* ... and otherwise puts one group of its own last.
Installed(root, executable) ==
  LET Present(e) == IF HooksOf(root)[e] = Absent THEN <<>> ELSE HooksOf(root)[e]
  IN  [hooks |-> [e \in Events |->
        Append(RemoveOwned(Present(e)), [hooks |-> <<executable>>])]]

\* uninstall_hooks skips what it does not understand.
Uninstalled(root) ==
  IF root.hooks \in {Absent, Odd} THEN root
  ELSE [hooks |-> [e \in Events |-> IF root.hooks[e] \in {Absent, Odd} THEN root.hooks[e]
                                    ELSE RemoveOwned(root.hooks[e])]]

\* Read the file and compute the new root; an unchanged root is not written.
Begin(p, root, changed) ==
  /\ pc[p] = "idle"
  /\ commands < MaxCommands
  /\ commands' = commands + 1
  /\ IF changed = root THEN UNCHANGED <<pc, local>>
     ELSE /\ pc' = [pc EXCEPT ![p] = "backup"]
          /\ local' = [local EXCEPT ![p] = changed]
  /\ UNCHANGED <<file, backup, saved, overlapped>>

Install(p) ==
  /\ Installable(file)
  /\ \E x \in Executables : Begin(p, Root(file), Installed(Root(file), x))

Uninstall(p) ==
  /\ file # Malformed
  /\ Begin(p, Root(file), Uninstalled(Root(file)))

\* The command ends with an error before it writes anything.
Refuse(p) ==
  /\ ~Installable(file)
  /\ Begin(p, file, file)

\* write_hooks_root reads the file again for the backup.
BackUp(p) ==
  /\ pc[p] = "backup"
  /\ backup' = IF file = Missing THEN backup ELSE file
  /\ pc' = [pc EXCEPT ![p] = "write"]
  /\ UNCHANGED <<file, saved, overlapped, commands, local>>

\* atomic_write: a temporary file is renamed over hooks.json.
Write(p) ==
  /\ pc[p] = "write"
  /\ file' = local[p]
  /\ pc' = [pc EXCEPT ![p] = "idle"]
  /\ local' = [local EXCEPT ![p] = Missing]
  /\ UNCHANGED <<backup, saved, overlapped, commands>>

\* The process dies, or a write fails, between two of its steps.
Crash(p) ==
  /\ pc[p] # "idle"
  /\ pc' = [pc EXCEPT ![p] = "idle"]
  /\ local' = [local EXCEPT ![p] = Missing]
  /\ UNCHANGED <<file, backup, saved, overlapped, commands>>

\* The user or another tool saves the file.
Edit ==
  /\ commands < MaxCommands
  /\ commands' = commands + 1
  /\ file' \in Edits
  /\ saved' = file'
  /\ overlapped' = (overlapped \/ \E p \in Processes : pc[p] # "idle")
  /\ UNCHANGED <<backup, pc, local>>

Next == \/ Edit
        \/ \E p \in Processes : \/ Install(p)
                                \/ Uninstall(p)
                                \/ Refuse(p)
                                \/ BackUp(p)
                                \/ Write(p)
                                \/ Crash(p)

Spec == Init /\ [][Next]_vars

-----------------------------------------------------------------------------

\* The handlers of groups, in the order Codex runs them.
InTurn(groups) ==
  LET turn[i \in 0..Len(groups)] ==
        IF i = 0 THEN <<>>
        ELSE turn[i - 1] \o IF groups[i].hooks = Absent THEN <<>> ELSE groups[i].hooks
  IN  turn[Len(groups)]

HandlersOf(content, e) ==
  IF content \in {Missing, Malformed} \/ content.hooks \in {Absent, Odd} THEN <<>>
  ELSE IF content.hooks[e] \in {Absent, Odd} THEN <<>>
  ELSE InTurn(content.hooks[e])

OthersOf(content, e) == NotOwned(HandlersOf(content, e))

OwnCount(content, e) ==
  Cardinality({i \in DOMAIN HandlersOf(content, e) : Owned(HandlersOf(content, e)[i])})

(* The file and its backup are always whole files, and a process that is   *)
(* to write holds one that it computed.                                    *)
TypeOK ==
  /\ {file, backup, saved} \subseteq Files
  /\ \A p \in Processes : pc[p] # "idle" => local[p] \in Files \ {Missing, Malformed}

(* The file runs the handlers of the user and of other tools, in the order *)
(* they were saved last.                                                   *)
OtherHandlersKept ==
  \A e \in Events : OthersOf(file, e) = OthersOf(saved, e)

(* That holds however installs, uninstalls and crashes interleave, as long *)
(* as nobody saves the file while a command is between its steps.          *)
SavesKeptUnlessOverlapped == overlapped \/ OtherHandlersKept

(* Interleaved installs do not add up: Codex runs at most one handler of   *)
(* codex-watch for an event, unless the user saved more.                   *)
OneOwnHandler ==
  \A e \in Events : OwnCount(file, e) > 1 => file = saved
=============================================================================
