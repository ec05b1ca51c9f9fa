------------------------------- MODULE Logger -------------------------------
(***************************************************************************)
(* How the logger thread (logger-file.c) keeps what it has written: one    *)
(* open file that is renamed when it has grown to log_max_size (log_method *)
(* "roll") and opened anew.  A life of the daemon is the sequence of the   *)
(* rolls it is asked for; of a roll the model keeps how many names in a    *)
(* row rename fails for, and whether the log can be opened again.          *)
(* The logger decides nothing in the daemon, so a life is summed up in     *)
(* what it leaves behind for the next one.                                 *)
(***************************************************************************)
EXTENDS Integers, Sequences

CONSTANTS
    MaxFiles,   \* rolled files of one life, 64 in the code
    LogLife     \* lives of the daemon: a set of sequences of RollEvent

ASSUME MaxFilesAssumption == MaxFiles \in Nat

VARIABLE log    \* what the daemon that is started next finds

RollEvent == [fails : Nat, reopened : BOOLEAN]

ASSUME LogLifeAssumption == LogLife \subseteq Seq(RollEvent)

(* logger_file_thread: the count starts at 0 in every life, so the first   *)
(* roll renames over what an earlier life left as file 0.                  *)
Opened == [f_log |-> TRUE, file_count |-> 0, rolls |-> 0, file |-> [k \in 0 .. MaxFiles - 1 |-> 0]]

(* Mutant: after the last name the count starts again.                     *)
RollMutant(l, event) ==
    LET n == (l.file_count + event.fails) % MaxFiles
    IN  IF ~ l.f_log
        THEN l
        ELSE [f_log |-> event.reopened, file_count |-> n + 1,
              rolls |-> l.rolls + 1, file |-> [l.file EXCEPT ![n] = l.rolls + 1]]

(* logger_thread_event finds the file full.  Names are tried from          *)
(* file_count up until a rename succeeds; when none does (the log was      *)
(* moved away, or all names are used) nothing is logged any more.          *)
Roll(l, event) ==
    LET n == l.file_count + event.fails
    IN  CASE ~ l.f_log -> l
          [] l.f_log /\ n >= MaxFiles ->
               [l EXCEPT !.f_log = FALSE, !.file_count = MaxFiles]
          [] OTHER ->
               [f_log |-> event.reopened, file_count |-> n + 1,
                rolls |-> l.rolls + 1, file |-> [l.file EXCEPT ![n] = l.rolls + 1]]

Logged(life) ==
    LET after[n \in 0 .. Len(life)] == IF n = 0 THEN Opened ELSE Roll(after[n - 1], life[n])
    IN  after[Len(life)]

LeftBehind == {Logged(life) : life \in LogLife}

(* The rolled files of l are numbered in order, and none is missing.       *)
InOrder(l) ==
    /\ \A j, k \in DOMAIN l.file :
         j < k /\ l.file[j] # 0 /\ l.file[k] # 0 => l.file[j] < l.file[k]
    /\ \A r \in 1 .. l.rolls : \E k \in DOMAIN l.file : l.file[k] = r

(* The numbers of the rolled files of one life tell the order in which     *)
(* they were written, and everything logger_thread_event rolled away in    *)
(* this life is still there: no name is used twice.                        *)
RollOrder == InOrder(log)

=============================================================================
