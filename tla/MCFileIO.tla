------------------------------ MODULE MCFileIO -----------------------------
(* FileIO with few, small blocks, and its view as a FlatFile: the calls of   *)
(* one thread, who is alone in the run that checks the view.                 *)
EXTENDS FileIO

Caller == CHOOSE t \in Thread : TRUE

Flat == INSTANCE FlatFile WITH
            size  <- [f \in File |-> written[f].size],
            bytes <- [f \in File |-> written[f].bytes],
            call  <- call[Caller],
            reply <- reply[Caller]

\* Calls that do not overlap read and write files as rows of bytes: a read
\* answers the bytes that writes put there and zeros where none did, stops at
\* the end of the file, and changes nothing; with the exceptions that FlatFile
\* names.
ImplementsFlatFile == Flat!FlatSpec

=============================================================================
