--------------------------- MODULE ResponseWriter ---------------------------
(***************************************************************************)
(* bufioW (resp/bufio.go), which is the ResponseWriter of a server and the *)
(* RequestWriter of a client: appends to a buffer that Flush writes out,   *)
(* and CopyBulk, which copies a bulk from a source into the buffer where   *)
(* it fits and straight to the connection where it does not.               *)
(*                                                                         *)
(* Every method holds the writer's mutex from its first to its last        *)
(* change, so it is one step.  Any write may fail after any part of its    *)
(* bytes, and any later one may succeed: the failure may be a deadline     *)
(* that has passed, and serveClient (server.go:98-99) and the users of a   *)
(* client's conn (conn.go:49-54) set new ones.                             *)
(***************************************************************************)
EXTENDS Integers, Requests

CONSTANTS
    BufferSize,  \* cap(buf) of a new writer
    MaxBytes,    \* bytes that are appended or copied (bound)
    MaxFailures, \* writes that fail, on one connection (bound)
    Sizes        \* sizes of bulks

ASSUME WriterAssumption ==
    /\ BufferSize \in Nat \ {0} /\ MaxBytes \in Nat /\ MaxFailures \in Nat
    /\ Sizes \subseteq Nat

VARIABLES
    buf, cap,   \* the pending bytes and the capacity of their array
    out,        \* what has been written to the connection
    acked,      \* history: the bytes of the writes that succeeded
    failures,   \* the writes that failed
    retried,    \* history: something was written after a failure
    stream,     \* history: the bytes of all calls, those that failed included
    whole,      \* history: no source of a CopyBulk has ended early
    copied      \* history: no CopyBulk has failed to write

conn == <<out, acked, failures, retried>>
vars == <<buf, cap, conn, stream, whole, copied>>

Init ==
    /\ buf = <<>> /\ cap = BufferSize
    /\ out = <<>> /\ acked = <<>> /\ failures = 0 /\ retried = FALSE
    /\ stream = <<>> /\ whole = TRUE /\ copied = TRUE

\* The bytes of a line that is no size, such as a status or a number, and of a
\* bulk's content.
LineBytes(prefix) == <<Byte(prefix, 0, FALSE), CR, LF>>
Content(n)        == [i \in 1 .. n |-> Byte("data", i, TRUE)]

\* The capacity after an append: that of a larger array when need be.
Grown(len) == IF len <= cap THEN {cap} ELSE {len, 2 * len}

\* AppendArrayLen, AppendBulk, AppendInline, AppendError, AppendInt, AppendNil
\* and AppendOK, by the bytes they append.
AppendBytes(bs) ==
    /\ Len(stream) + Len(bs) <= MaxBytes
    /\ buf' = buf \o bs
    /\ cap' \in Grown(Len(buf'))
    /\ stream' = stream \o bs
    /\ UNCHANGED <<conn, whole, copied>>

AppendArrayLen == AppendBytes(SizeBytes("*", 2))
AppendBulk     == \E n \in Sizes : AppendBytes(BulkBytes(Content(n)))
AppendLine     == \E p \in {"+", ":"} : AppendBytes(LineBytes(p))

\* Write bs: all of it, or a part of it and an error.
WriteSucceeds(bs) ==
    /\ out' = out \o bs /\ acked' = acked \o bs
    /\ retried' = (failures > 0)
    /\ UNCHANGED failures
WriteFails(bs) ==
    \E k \in 0 .. Len(bs) - 1 :
        /\ failures < MaxFailures /\ failures' = failures + 1
        /\ out' = out \o SubSeq(bs, 1, k)
        /\ retried' = (retried \/ (failures > 0 /\ k > 0))
        /\ UNCHANGED acked

\* Mutant of Flush: the buffer is emptied when the write fails.
FlushDrops ==
    /\ buf # <<>>
    /\ WriteSucceeds(buf) \/ WriteFails(buf)
    /\ buf' = <<>>
    /\ UNCHANGED <<cap, stream, whole, copied>>

\* The whole buffer is kept when the write fails.
Flush ==
    /\ \/ /\ buf # <<>> /\ WriteSucceeds(buf)
          /\ buf' = <<>>
       \/ /\ buf # <<>> /\ WriteFails(buf)
          /\ UNCHANGED buf
    /\ UNCHANGED <<cap, stream, whole, copied>>

\* What a source that has m bytes gives when n are asked for.
Given(n, m) == Content(Min({n, m}))

\* The bulk fits: it is read into the array behind the header, where older
\* bytes remain if the source ends early (CopyBulk then returns an error).
CopyToBuffer(n, m) ==
    LET head == buf \o SizeBytes("$", n)
    IN  /\ cap' \in Grown(Len(head))
        /\ cap' - Len(head) >= n + 2
        /\ buf' = head \o Given(n, m) \o (IF m < n THEN [i \in 1 .. n - m |-> Junk]
                                                 ELSE CRLF)
        /\ UNCHANGED <<conn, copied>>

\* It does not: the buffer is flushed and the bulk copied to the connection,
\* through the empty buffer.  A flush that fails leaves the header in the
\* buffer, a copy that fails empties it; the end of the source is no error to
\* io.CopyBuffer.
CopyToConn(n, m) ==
    LET head == buf \o SizeBytes("$", n)
        all  == head \o Given(n, m)
    IN  /\ cap' \in Grown(Len(head))
        /\ cap' - Len(head) < n + 2
        /\ \/ /\ WriteSucceeds(all)
              /\ buf' = CRLF
              /\ UNCHANGED copied
           \/ /\ WriteFails(all)
              /\ buf' = IF Len(out') - Len(out) < Len(head) THEN head ELSE <<>>
              /\ copied' = FALSE

CopyBulk(n, m) ==
    /\ Len(stream) + Len(BulkBytes(Content(n))) <= MaxBytes
    /\ CopyToBuffer(n, m) \/ CopyToConn(n, m)
    /\ stream' = stream \o BulkBytes(Content(n))
    /\ whole' = (whole /\ m = n)

\* The writer goes to another connection.
Reset ==
    /\ buf' = <<>> /\ out' = <<>> /\ acked' = <<>>
    /\ failures' = 0 /\ retried' = FALSE
    /\ stream' = <<>> /\ whole' = TRUE /\ copied' = TRUE
    /\ UNCHANGED cap

Next ==
    \/ AppendArrayLen
    \/ AppendBulk
    \/ AppendLine
    \/ Flush
    \/ \E n \in Sizes : \E m \in 0 .. n : CopyBulk(n, m)
    \/ Reset

Spec == Init /\ [][Next]_vars

-----------------------------------------------------------------------------
(* Properties *)

\* Every variable has its type and the buffer fits its array.
TypeOK ==
    /\ cap \in Nat /\ Len(buf) <= cap /\ cap >= BufferSize
    /\ failures \in 0 .. MaxFailures
    /\ retried \in BOOLEAN /\ whole \in BOOLEAN /\ copied \in BOOLEAN
    /\ Len(stream) <= MaxBytes

\* The kinds and numbers of some bytes.
Plain(bs) == [i \in DOMAIN bs |-> <<bs[i].k, bs[i].n>>]

\* The buffer fits its array, and:
\* - the writes that succeeded and what is pending are together the bytes of all
\*   calls, each once and in order, whether a bulk went through the buffer or
\*   past it and whatever flushes have failed in between (unless a CopyBulk
\*   failed, which leaves its bulk half-written);
\* - what has reached the connection is the beginning of those bytes, until
\*   something is written after a failure (a flush that is tried again repeats
\*   what the failed one had written: NothingRepeated);
\* - it is what the writes that succeeded wrote, while none has failed.
\* The first two are not so once the source of a CopyBulk has ended early.
OutputExact ==
    /\ TypeOK
    /\ whole /\ copied => Plain(acked \o buf) = Plain(stream)
    /\ whole /\ ~retried => IsPrefix(Plain(out), Plain(stream))
    /\ failures = 0 => out = acked /\ copied

\* The connection gets the bytes of the calls and nothing else (response.go:14-15:
\* "ResponseWriter is used by servers to wrap a client connection and send
\* protocol-compatible responses in buffered pipelines").
\* The code: a flush that is tried again after a deadline repeats bytes.
NothingRepeated == whole => IsPrefix(Plain(out), Plain(stream))

=============================================================================
