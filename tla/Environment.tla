---------------------------- MODULE Environment -----------------------------
(***************************************************************************)
(* The environment of the legacy programs (REPL/REPLEnvironment): a chain  *)
(* of entries behind a sentinel, the built-in ones first, and the list of  *)
(* their names that the window shows.  A new definition comes before the   *)
(* row that has the cursor, which the user puts anywhere, or at the end if *)
(* no row has it, so that the position in the list becomes a position in   *)
(* the chain.                                                              *)
(*                                                                         *)
(* fTailUserEnvironment points at the last built-in entry: what is behind  *)
(* it is saved.  fTailUserEnvironmentFrontier always points at the last    *)
(* entry, and the command that REPL_close_environment hangs behind it is   *)
(* never seen again, so that neither needs a variable.                     *)
(***************************************************************************)
EXTENDS Integers, SequencesExt

CONSTANTS Names,    \* the names there are
          Builtins, \* those of REPL_init_builtins, in order
          Bodies,   \* the programs that are defined
          builtin   \* the body of every built-in entry

ASSUME BuiltinsAssumption == Builtins \in Seq(Names)

VARIABLES
    entries,              \* the chain: records of a name and a body
    fTailUserEnvironment, \* the number of the entry that it points at
    rows                  \* the names in the window

environment == <<entries, fTailUserEnvironment, rows>>
Entries == [name : Names, body : Bodies \union {builtin}]

Entry(name, body) == [name |-> name, body |-> body]
namesOf(chain) == [i \in DOMAIN chain |-> chain[i].name]
inserted(s, i, new) == SubSeq(s, 1, i) \o new \o SubSeq(s, i + 1, Len(s))
least(i, j) == IF i <= j THEN i ELSE j
builtinEntries == [i \in DOMAIN Builtins |-> Entry(Builtins[i], builtin)]

(* Where a new name comes, counted from 0: in GTK before the row with the   *)
(* cursor or behind all, in WIN32 before the row with the caret or behind   *)
(* all; the terminal only counts its names.                                 *)
placesGTK == 0 .. Len(rows)
placesWIN32 == 0 .. Len(rows)
placesTUI == {Len(rows)}

(* A mutant of prevNode: the walk starts at the first entry instead.        *)
prevNodeOneFurther(index) == least(index + 1, Len(entries))

(* How far the walk from the sentinel goes for an index.                    *)
prevNode(index) == least(index, Len(entries))

(* REPL_add_to_environment_simple of some definitions, one after the other: *)
(* the cursor stays on its row, so that they keep their order.              *)
AddToEnvironment(new, index) ==
    /\ rows' = inserted(rows, index, namesOf(new))
    /\ entries' = inserted(entries, prevNode(index), new)
    /\ fTailUserEnvironment' = fTailUserEnvironment
                               + IF prevNode(index) < fTailUserEnvironment THEN Len(new) ELSE 0

(* REPL_clear and REPL_init_builtins, then REPL_set_environment.            *)
SetEnvironment(user) ==
    /\ entries' = builtinEntries \o user
    /\ rows' = Builtins \o namesOf(user)
    /\ fTailUserEnvironment' = Len(Builtins)

userEnvironment == SubSeq(entries, fTailUserEnvironment + 1, Len(entries))

InitEnvironment ==
    /\ entries = builtinEntries
    /\ rows = Builtins
    /\ fTailUserEnvironment = Len(Builtins)
=============================================================================
