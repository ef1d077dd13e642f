----------------------------- MODULE FileCoding -----------------------------
(***************************************************************************)
(* What the file system computes: the chunks and parity shards of a file,  *)
(* its manifest, its reassembly, the reconstruction of a group that lost   *)
(* shards (fs/chunker.rs, fs/local_store.rs), and the storage proofs       *)
(* (fs/proof.rs).                                                          *)
(*                                                                         *)
(* The bytes of a file are its positions 1, 2, 3, ..., and 0 is padding.   *)
(* A byte of a parity shard is the column of data bytes it is computed     *)
(* from: enough of a group's bytes determine the column (Reed-Solomon).    *)
(***************************************************************************)
EXTENDS Integers, Sequences, FiniteSets, SequencesExt, FiniteSetsExt

CONSTANTS
    FileSizes,      \* sizes of the files
    CHUNK_SIZE,
    RS_DATA_SHARDS,
    RS_PARITY_SHARDS,
    RangeSizes,     \* sizes of a challenged range (32..=256)
    NumRanges       \* ranges per challenge

ASSUME FileCodingAssumption ==
    /\ FileSizes \subseteq Nat \ {0}
    /\ CHUNK_SIZE \in Nat \ {0} /\ RS_DATA_SHARDS \in Nat \ {0} /\ RS_PARITY_SHARDS \in Nat
    /\ RangeSizes \subseteq Nat \ {0} /\ NumRanges \in Nat

VARIABLES
    file,        \* the bytes of the uploaded file
    stored,      \* chunk_file's result: [group, type, bytes], in order
    manifest,    \* build_manifest's chunk references: [chunk, index, type]
    restored,    \* reconstruct_group's result for some surviving shards, per group
    survivors,   \* the shards that were given to it
    byte_ranges, \* byte ranges of a storage challenge
    proof        \* [size, accepted]: the prover's copy and verify_proof's answer

codingVars == <<file, stored, manifest, restored, survivors, byte_ranges, proof>>

\* A shard that is not there, and the result of a failed reconstruction: no
\* shard is empty.
Missing == <<>>
Error == <<>>

NotRestored == [group |-> 0]
NoProof == [accepted |-> FALSE]

Zeros(n) == [i \in 1..n |-> 0]
Resize(s, n) == [i \in 1..n |-> IF i <= Len(s) THEN s[i] ELSE 0]
Pieces(s, n) == [k \in 1..((Len(s) + n - 1) \div n) |->
                   SubSeq(s, (k - 1) * n + 1, IF k * n < Len(s) THEN k * n ELSE Len(s))]

CodingInit ==
    /\ file = <<>> /\ stored = <<>> /\ manifest = <<>>
    /\ restored = NotRestored /\ survivors = {}
    /\ byte_ranges = <<>> /\ proof = NoProof

-----------------------------------------------------------------------------
(* Chunks and parity.                                                      *)

\* encode_group: the chunks are padded to the longest, zero shards fill the group.
encode_group(group) ==
    LET size == Max({Len(group[i]) : i \in DOMAIN group})
        padded == [i \in 1..RS_DATA_SHARDS |->
                     IF i <= Len(group) THEN Resize(group[i], size) ELSE Zeros(size)]
    IN  [p \in 1..RS_PARITY_SHARDS |->
           [row \in 1..size |-> [i \in 1..RS_DATA_SHARDS |-> padded[i][row]]]]

\* The chunks of group g, as they are, then its parity shards.
Shards(groups, g) ==
    [i \in DOMAIN groups[g] |-> [group |-> g, type |-> "Data", bytes |-> groups[g][i]]]
    \o [p \in 1..RS_PARITY_SHARDS |->
          [group |-> g, type |-> "Parity", bytes |-> encode_group(groups[g])[p]]]

\* chunk_file: the shards of one group after the other.
chunk_file(data) ==
    LET groups == Pieces(Pieces(data, CHUNK_SIZE), RS_DATA_SHARDS)
    IN  FlattenSeq([g \in DOMAIN groups |-> Shards(groups, g)])

\* Mutant of build_manifest: the index starts again in every group.
ManifestPerGroup(chunks) ==
    [i \in DOMAIN chunks |->
        [chunk |-> i, type |-> chunks[i].type,
         index |-> Cardinality({j \in 1..(i - 1) : chunks[j].group = chunks[i].group})]]

\* build_manifest: the index is the position among all shards.
build_manifest(chunks) ==
    [i \in DOMAIN chunks |-> [chunk |-> i, index |-> i - 1, type |-> chunks[i].type]]

DataRefs(refs) == {i \in DOMAIN refs : refs[i].type = "Data"}

Before(refs, i, j) ==
    \/ refs[i].index < refs[j].index
    \/ refs[i].index = refs[j].index /\ i < j

\* sort_by_key: the data chunks by their index, equal ones as they stood; each is the
\* first of those that come after the one before it.
ByIndex(refs) ==
    LET order[k \in 1..Cardinality(DataRefs(refs))] ==
            LET last == order[k - 1]
                left == {i \in DataRefs(refs) : k = 1 \/ Before(refs, last, i)}
            IN  CHOOSE i \in left : \A j \in left : j = i \/ Before(refs, i, j)
    IN  order

\* reassemble_file: the data chunks in the order of their index, cut to size.
reassemble_file(refs, chunks, size) ==
    LET order == ByIndex(refs)
        bytes == FlattenSeq([k \in DOMAIN order |-> chunks[refs[order[k]].chunk].bytes])
    IN  SubSeq(bytes, 1, IF Len(bytes) < size THEN Len(bytes) ELSE size)

Upload(n) ==
    /\ file = <<>>
    /\ file' = [i \in 1..n |-> i]
    /\ stored' = chunk_file(file')
    /\ manifest' = build_manifest(stored')
    /\ UNCHANGED <<restored, survivors, byte_ranges, proof>>

\* The reed_solomon crate, row by row: shards of one size, enough of them present,
\* give the columns they all belong to; rows that belong to none are garbage.
ReconstructColumn(shards, row) ==
    LET Fits(column) == \A i \in DOMAIN shards : shards[i] # Missing =>
                            shards[i][row] = IF i <= RS_DATA_SHARDS THEN column[i] ELSE column
        parity == {i \in DOMAIN shards : i > RS_DATA_SHARDS /\ shards[i] # Missing}
        column == IF parity = {} THEN [i \in 1..RS_DATA_SHARDS |-> shards[i][row]]
                                 ELSE shards[Min(parity)][row]
    IN  IF Fits(column) THEN column ELSE [i \in 1..RS_DATA_SHARDS |-> -1]

Present(shards) == {i \in DOMAIN shards : shards[i] # Missing}

\* Mutant of reconstruct_group: the size is that of the last shard of the group's
\* data that is present.
ReconstructFromLast(shards) ==
    LET data == {i \in Present(shards) : i <= RS_DATA_SHARDS}
        size == Len(shards[IF data = {} THEN Min(Present(shards)) ELSE Max(data)])
        sized == [i \in DOMAIN shards |->
                    IF shards[i] = Missing THEN Missing ELSE Resize(shards[i], size)]
    IN  IF Cardinality(Present(shards)) < RS_DATA_SHARDS THEN Error
        ELSE FlattenSeq([i \in 1..RS_DATA_SHARDS |->
                [row \in 1..size |-> ReconstructColumn(sized, row)[i]]])

\* reconstruct_group: all shards get the size of the first one present.
reconstruct_group(shards) ==
    LET size == Len(shards[Min(Present(shards))])
        sized == [i \in DOMAIN shards |->
                    IF shards[i] = Missing THEN Missing ELSE Resize(shards[i], size)]
    IN  IF Cardinality(Present(shards)) < RS_DATA_SHARDS THEN Error
        ELSE FlattenSeq([i \in 1..RS_DATA_SHARDS |->
                [row \in 1..size |-> ReconstructColumn(sized, row)[i]]])

\* The shards of group g that chunk_file made of one kind: they stand together.
OfGroup(g, type) ==
    LET own == {i \in DOMAIN stored : stored[i].group = g /\ stored[i].type = type}
    IN  SubSeq(stored, Min(own), Max(own))
DataOf(g) == OfGroup(g, "Data")
ParityOf(g) == OfGroup(g, "Parity")

\* The shards of group g that survive, in their places: a short group has no shard in
\* its last data places.
Placed(g, kept) ==
    [i \in 1..(RS_DATA_SHARDS + RS_PARITY_SHARDS) |->
        CASE i \notin kept -> Missing
          [] i \in kept /\ i <= RS_DATA_SHARDS ->
                IF i <= Len(DataOf(g)) THEN DataOf(g)[i].bytes ELSE Missing
          [] OTHER -> ParityOf(g)[i - RS_DATA_SHARDS].bytes]

Groups == {stored[i].group : i \in DOMAIN stored}

Reconstruct(g, kept) ==
    /\ restored = NotRestored
    /\ Present(Placed(g, kept)) # {}
    /\ restored' = [group |-> g, bytes |-> reconstruct_group(Placed(g, kept))]
    /\ survivors' = Present(Placed(g, kept))
    /\ UNCHANGED <<file, stored, manifest, byte_ranges, proof>>

-----------------------------------------------------------------------------
(* Storage proofs.                                                         *)

\* Mutant of Ranges: a range may start anywhere in the chunk.
RangesFromAnywhere(size) ==
    {<<start, start + Min({r, size})>> : r \in RangeSizes, start \in 0..(size - 1)}

\* The ranges that generate may draw; the last possible start is left out.
Ranges(size) ==
    UNION {LET n == Min({r, size}) IN
           {<<start, start + n>> : start \in IF size > n THEN 0..(size - n - 1) ELSE {0}}
           : r \in RangeSizes}

\* compute_proof_hash: the bytes at the ranges, as far as the data goes.
compute_proof_hash(data, ranges) ==
    FlattenSeq([i \in DOMAIN ranges |->
        SubSeq(data, ranges[i][1] + 1,
               IF ranges[i][2] < Len(data) THEN ranges[i][2] ELSE Len(data))])

generate(ranges) ==
    /\ stored # <<>> /\ byte_ranges = <<>>
    /\ byte_ranges' = ranges
    /\ UNCHANGED <<file, stored, manifest, restored, survivors, proof>>

\* A holder whose copy of the chunk ends after `size` bytes proves; the verifier
\* recomputes the hash from the whole chunk before the deadline, or is too late.
Prove(size, late) ==
    /\ byte_ranges # <<>> /\ proof = NoProof
    /\ LET chunk == stored[1].bytes
           mine  == compute_proof_hash(SubSeq(chunk, 1, size), byte_ranges)
       IN  proof' = [size |-> size, late |-> late,
                     accepted |-> ~late /\ mine = compute_proof_hash(chunk, byte_ranges)]
    /\ UNCHANGED <<file, stored, manifest, restored, survivors, byte_ranges>>

CodingNext ==
    \/ \E n \in FileSizes : Upload(n)
    \/ \E g \in Groups : \E kept \in SUBSET (1..(RS_DATA_SHARDS + RS_PARITY_SHARDS)) :
         Reconstruct(g, kept)
    \/ /\ stored # <<>>
       /\ \/ \E ranges \in [1..NumRanges -> Ranges(Len(stored[1].bytes))] : generate(ranges)
          \/ \E size \in 0..Len(stored[1].bytes), late \in BOOLEAN : Prove(size, late)

CodingSpec == CodingInit /\ [][CodingNext]_codingVars

-----------------------------------------------------------------------------
(* Properties.                                                             *)

\* A file comes back from its manifest as it was uploaded, whatever its size: the
\* parity shards between its groups leave no trace.
ReassembledExact ==
    stored # <<>> => reassemble_file(manifest, stored, Len(file)) = file

\* As many surviving shards as there are data shards restore all bytes of a
\* group, whichever they are and however short its last chunk is; fewer are
\* refused.
RestoredExact ==
    restored # NotRestored =>
        IF Cardinality(survivors) < RS_DATA_SHARDS THEN restored.bytes = Error
        ELSE LET original == FlattenSeq([i \in DOMAIN DataOf(restored.group) |->
                                            DataOf(restored.group)[i].bytes])
             IN  IsPrefix(original, restored.bytes)

\* An accepted proof was made in time, from a copy that reaches to the end of
\* every challenged range.
ProofBinds ==
    proof # NoProof /\ proof.accepted =>
        ~proof.late /\ \A i \in DOMAIN byte_ranges : byte_ranges[i][2] <= proof.size

\* Every byte of a file comes back, from all of its chunks or from the shards
\* that survive in a group.
FilesRestored ==
    /\ ReassembledExact
    /\ RestoredExact

=============================================================================
