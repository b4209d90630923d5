------------------------------ MODULE DataChunks ------------------------------
(***************************************************************************)
(* Splitting a serialized message into chunks and joining them again       *)
(* (src/cpp/bosdyn/client/data_chunk/).  A message is the sequence of its  *)
(* bytes; ChunkSize stands for 2 MiB.                                      *)
(***************************************************************************)
EXTENDS Naturals, Sequences

CONSTANT ChunkSize

ASSUME ChunkSizeAssumption == ChunkSize \in Nat \ {0}

(* Full chunks and a last one that is shorter: empty if the size of the    *)
(* message is a multiple of the size of a chunk.                           *)
StringToDataChunks(buffer) ==
  LET full == Len(buffer) \div ChunkSize IN
  [i \in 1 .. full + 1 |->
     [data |-> SubSeq(buffer, (i - 1) * ChunkSize + 1,
                      IF i <= full THEN i * ChunkSize ELSE Len(buffer)),
      total_size |-> Len(buffer)]]

Appended(chunks) ==
  LET upTo[i \in 0 .. Len(chunks)] ==
        IF i = 0 THEN <<>> ELSE upTo[i - 1] \o chunks[i].data
  IN upTo[Len(chunks)]

NotJoined == [good |-> FALSE, message |-> <<>>]

(* MessageFromDataChunks adds parsing, which fails for no joined message;  *)
(* no chunks at all are joined to the empty message.                       *)
StringFromDataChunks(chunks) ==
  IF chunks = <<>> THEN [good |-> TRUE, message |-> <<>>]
  ELSE IF \/ \E i \in 1 .. Len(chunks) : chunks[i].total_size # chunks[1].total_size
          \/ Len(Appended(chunks)) # chunks[1].total_size
  THEN NotJoined
  ELSE [good |-> TRUE, message |-> Appended(chunks)]
=============================================================================
