------------------------------ MODULE FlatFile -----------------------------
(***************************************************************************)
(* What pread and pwrite promise: a file is a row of bytes and a size, and *)
(* a call takes effect at once when it returns.  FileIO, the loops of      *)
(* src/syscalls2.c over blocks, implements this specification for calls    *)
(* that do not overlap.                                                    *)
(*                                                                         *)
(* Two actions stand for what the code does beside that promise: ReadOn    *)
(* and ReadNothing.                                                        *)
(***************************************************************************)
EXTENDS Integers, Sequences, FiniteSetsExt

CONSTANTS
    Call,           \* the calls: [op, file, offset, n, byte]
    BlockSize,
    IntMax          \* the largest int

VARIABLES
    size,           \* the size of every file
    bytes,          \* the bytes of every file, those past its end included
    call,           \* the call under way, or NoCall
    reply           \* the answer to the last call

flatVars == <<size, bytes, call, reply>>

NoCall == [op |-> "none"]

Answer(n, read) == [n |-> n, bytes |-> read]

NoAnswer == Answer(0, <<>>)

End == call.offset + call.n

ByteAt(i) == IF i \in DOMAIN bytes[call.file] THEN bytes[call.file][i] ELSE 0

BytesUpTo(end) ==
    [k \in 1..Max({0, end - call.offset}) |-> ByteAt(call.offset + k - 1)]

FlatInit ==
    /\ \A f \in DOMAIN size : size[f] = 0 /\ \A i \in DOMAIN bytes[f] : bytes[f][i] = 0
    /\ call = NoCall
    /\ reply = NoAnswer

Begin ==
    /\ call = NoCall
    /\ call' \in Call
    /\ reply' = NoAnswer
    /\ UNCHANGED <<size, bytes>>

Return(answer) ==
    /\ call' = NoCall
    /\ reply' = answer

Returned(row) == Return(Answer(Len(row), row))

\* The bytes from offset on, up to n of them and not beyond the end.
Read ==
    /\ call.op = "read"
    /\ Returned(BytesUpTo(Min({End, size[call.file]})))
    /\ UNCHANGED <<size, bytes>>

\* A read reaches the end of a file whose last block is full: it goes on, and
\* answers the n bytes that it was asked for.
ReadOn ==
    /\ call.op = "read"
    /\ Returned(BytesUpTo(End))
    /\ size[call.file] % BlockSize = 0
    /\ call.offset < size[call.file]
    /\ UNCHANGED <<size, bytes>>

\* The size does not fit an int: the code may take the offset for one past the end.
ReadNothing ==
    /\ call.op = "read"
    /\ Returned(<<>>)
    /\ size[call.file] > IntMax
    /\ UNCHANGED <<size, bytes>>

\* All n bytes are written.  A write of no bytes past the end moves the end, too.
Write ==
    /\ call.op = "write"
    /\ Return(Answer(call.n, <<>>))
    /\ bytes' = [bytes EXCEPT ![call.file] =
                    [i \in DOMAIN @ |-> IF i \in call.offset..End - 1 THEN call.byte ELSE @[i]]]
    /\ size' = [size EXCEPT ![call.file] = Max({@, End})]

\* Some of the bytes may be written, and the file keeps its size.
WriteFails ==
    /\ call.op = "write"
    /\ Return(Answer(-1, <<>>))
    /\ \E written \in SUBSET ((call.offset..End - 1) \cap DOMAIN bytes[call.file]) :
          bytes' = [bytes EXCEPT ![call.file] =
                      [i \in DOMAIN @ |-> IF i \in written THEN call.byte ELSE @[i]]]
    /\ UNCHANGED size

FlatNext == Begin \/ Read \/ ReadOn \/ ReadNothing \/ Write \/ WriteFails

FlatSpec == FlatInit /\ [][FlatNext]_flatVars

=============================================================================
