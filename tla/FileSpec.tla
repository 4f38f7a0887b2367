------------------------------ MODULE FileSpec ------------------------------
(***************************************************************************)
(* What the file system promises the programs that read files: a read      *)
(* returns exactly the bytes of the file it names, however the reads of    *)
(* several tasks interleave, or it reports an error.  A file whose inode   *)
(* could not be read when it was first looked up is lost: what it holds is *)
(* undefined from then on.  A read may be misled by an error that its      *)
(* driver does not see; nothing is promised of that one read.  Nor is      *)
(* anything promised of the bytes of a hole, which should be zeroes.  Ext2 *)
(* implements this specification.                                          *)
(***************************************************************************)
EXTENDS Naturals, Sequences

CONSTANTS Tasks,      \* the tasks that read
          Idle,       \* no call in progress
          EIO,        \* the error of a failed transfer
          EISDIR,     \* the error of opening a directory
          Hole        \* a byte that nobody has written

VARIABLES contents,   \* the bytes of every file; EISDIR for a directory
          call,       \* the call each task is in: a file, an offset, a length
          reply,      \* what each task's last call returned
          lost,       \* the files whose inode could not be read
          misled      \* the tasks whose read has met an error unseen

vars == <<contents, call, reply, lost, misled>>

Until(c) == LET end == c.off + c.len
                size == Len(contents[c.inode])
            IN  IF end > size THEN size ELSE end

\* The bytes that were read are those of the file, but for its holes.
Agree(read, bytes) ==
  /\ read \in Seq(Nat) /\ Len(read) = Len(bytes)
  /\ \A i \in 1 .. Len(bytes) : bytes[i] = Hole \/ read[i] = bytes[i]

Promised(c, result) ==
  IF contents[c.inode] = EISDIR THEN result = EISDIR
  ELSE result = EIO \/ Agree(result, SubSeq(contents[c.inode], c.off + 1, Until(c)))

Init ==
  /\ call = [t \in Tasks |-> Idle]
  /\ lost = {} /\ misled = {}

Call(t) ==
  /\ call[t] = Idle /\ call'[t] # Idle
  /\ \A u \in Tasks \ {t} : call'[u] = call[u] /\ reply'[u] = reply[u]
  /\ UNCHANGED <<contents, lost, misled>>

Lose(n) ==
  /\ lost' = lost \cup {n}
  /\ UNCHANGED <<contents, call, reply, misled>>

\* A later error that is seen makes up for it.
Mislead(t) ==
  /\ call[t] # Idle
  /\ misled' \in {misled \cup {t}, misled \ {t}}
  /\ UNCHANGED <<contents, call, reply, lost>>

Return(t) ==
  /\ call[t] # Idle
  /\ call' = [call EXCEPT ![t] = Idle]
  /\ \A u \in Tasks \ {t} : reply'[u] = reply[u]
  /\ call[t].inode \in lost \/ t \in misled \/ Promised(call[t], reply'[t])
  /\ misled' = misled \ {t}
  /\ UNCHANGED <<contents, lost>>

Next ==
  \/ \E t \in Tasks : Call(t) \/ Mislead(t) \/ Return(t)
  \/ \E n \in DOMAIN contents : Lose(n)

Spec == Init /\ [][Next]_vars
=============================================================================
