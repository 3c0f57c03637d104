------------------------------ MODULE HostFile ------------------------------
(***************************************************************************)
(* The file a bridged session operates on, as the host's os.File calls see *)
(* it: a sequence of bytes and a position.  A byte is an integer; 0 is the *)
(* byte a hole reads as.  Nothing here knows about the protocol.           *)
(***************************************************************************)
EXTENDS Integers, Sequences

\* The whence codes of lseek(2) and os.File.Seek.
SeekSet == 0
SeekCur == 1
SeekEnd == 2

\* The bytes a read of at most n bytes at position pos returns: all that are
\* left when fewer than n remain, none at or past the end of the file.
BytesAt(f, pos, n) ==
  SubSeq(f, pos + 1, IF pos + n < Len(f) THEN pos + n ELSE Len(f))

\* The file after data is written at position pos.  Bytes outside the written
\* range stay, the gap behind the old end is a hole.
Written(f, pos, data) ==
  IF data = <<>>
    THEN f
    ELSE [i \in 1..(IF pos + Len(data) > Len(f) THEN pos + Len(data) ELSE Len(f)) |->
            IF i \in (pos + 1)..(pos + Len(data)) THEN data[i - pos]
            ELSE IF i <= Len(f) THEN f[i] ELSE 0]

\* The position a seek asks for; a negative one is an error of the caller.
SeekTarget(f, pos, off, whence) ==
  off + (CASE whence = SeekSet -> 0
           [] whence = SeekCur -> pos
           [] OTHER            -> Len(f))
=============================================================================
