---------------------------- MODULE CommandArgs ----------------------------
(***************************************************************************)
(* A Command that ReadCmd recycles (resp/command.go, resp/request.go): the *)
(* slice of its arguments, and the slices of their bytes, are kept from    *)
(* one command to the next and appended to.  mem is the array under        *)
(* c.Args, of which the first argn are c.Args.                             *)
(*                                                                         *)
(* What a call of ReadCmd reads is up to RequestReader, which takes the    *)
(* steps of this module: here the call may fail before it gets to the      *)
(* arguments, or after any number of them.                                 *)
(***************************************************************************)
EXTENDS Naturals, Sequences

CONSTANTS
    ArgBytes,  \* the bytes of arguments
    MaxSpare   \* how many elements append may allocate beyond need (bound)

ASSUME SpareAssumption == MaxSpare \in Nat

VARIABLES
    mem, argn, \* the array, and the length of c.Args
    valid,     \* the last ReadCmd returned no error
    sentArgs   \* history: the arguments of the command it was called for

argVars == <<mem, argn, valid, sentArgs>>

\* new(Command)
ArgsInit == mem = <<>> /\ argn = 0 /\ valid = FALSE /\ sentArgs = <<>>

-----------------------------------------------------------------------------
\* Mutant of Reset: the arguments keep their bytes.
ResetKeepsBytes(m, len) == m

\* Reset empties the arguments the command has; those past its length are
\* left as they are.
Reset(m, len) == [i \in DOMAIN m |-> IF i <= len THEN <<>> ELSE m[i]]

\* grow(k): the array has at least k elements, the new ones empty.
grow(m, k, spare) ==
    IF k <= Len(m) THEN m
    ELSE m \o [i \in 1 .. k - Len(m) + spare |-> <<>>]

\* ReadCmd for the arguments args, all of which readMultiBulk makes room for;
\* the first k of them arrive.  readInline, which makes room for one after the
\* other, ends the same way with all of them: its line has been read by then.
ReadBulks(args, k, spare) ==
    LET m == grow(Reset(mem, argn), Len(args), spare)
    IN  /\ mem' = [i \in DOMAIN m |-> IF i <= k THEN m[i] \o args[i] ELSE m[i]]
        /\ argn' = Len(args)
        /\ valid' = (k = Len(args))
        /\ sentArgs' = args

\* The array's length, the name or the line cannot be read.
ReadFails ==
    /\ mem' = Reset(mem, argn)
    /\ argn' = 0 /\ valid' = FALSE /\ sentArgs' = <<>>

ArgsNext ==
    \/ \E args \in Seq(Seq(ArgBytes)), spare \in 0 .. MaxSpare :
          \E k \in 0 .. Len(args) : ReadBulks(args, k, spare)
    \/ ReadFails

ArgsSpec == ArgsInit /\ [][ArgsNext]_argVars

-----------------------------------------------------------------------------
(* Properties *)

\* The array has the arguments, and all of them are byte sequences.
ArgsTypeOK ==
    /\ mem \in Seq(Seq(ArgBytes)) /\ argn \in 0 .. Len(mem)
    /\ valid \in BOOLEAN /\ sentArgs \in Seq(Seq(ArgBytes))

\* What is past the end of c.Args is empty, so that grow can take it in.
SpareEmpty == \A i \in DOMAIN mem : i > argn => mem[i] = <<>>

\* A command that was read has the arguments it was sent with, and no byte of
\* a command before it: however many more, or fewer, or longer arguments that
\* one had, and wherever reading it failed.
ArgsOwn ==
    valid => argn = Len(sentArgs) /\ \A i \in 1 .. argn : mem[i] = sentArgs[i]
=============================================================================
