----------------------------- MODULE SafeTensors -----------------------------
(***************************************************************************)
(* What SafeTensorsFile::open() accepts of a shard                         *)
(* (src/src/model/safetensors.cpp), under the options WeightIndex opens    *)
(* it with (strictStOpts() of src/src/model/weight_index.cpp).             *)
(*                                                                         *)
(* A file is [opens, size, hsize, reads, json, entries]: the length its    *)
(* first 8 bytes announce for the header, whether that many bytes can be   *)
(* read, "object" if they are a JSON object, and its entries by name.  A   *)
(* file that cannot be mapped is accepted all the same.  An entry is       *)
(* [object, dtype, shape, begin, end], with an empty shape for one that is *)
(* missing or malformed and equal offsets for offsets that are; its        *)
(* dimensions are what int() made of the numbers in the header.  A name is *)
(* the sequence of its dot-separated segments.                             *)
(*                                                                         *)
(* Offsets and lengths are unsigned 64-bit numbers taken from the header:  *)
(* their sums and products wrap.  A header too long for memory, which ends *)
(* the program with an exception, is left out.                             *)
(***************************************************************************)
EXTENDS Integers, SequencesExt, FiniteSetsExt

CONSTANTS
    MaxDim,         \* 1 << 30
    TwoTo64,        \* where a uint64_t and a size_t wrap
    Underscored     \* the segments that begin with '_'

ASSUME WordOfBytes == TwoTo64 \in Nat \ {0}

Wrapped(n) == n % TwoTo64

DtypeBytes ==
    [F64 |-> 8, F32 |-> 4, F16 |-> 2, BF16 |-> 2, I64 |-> 8, I32 |-> 4, I16 |-> 2, I8 |-> 1,
     U64 |-> 8, U32 |-> 4, U8 |-> 1, BOOL |-> 1]

\* allowF32NameContaining
MayBeF32(name) == \E i \in DOMAIN name : name[i] = "e_score_correction_bias"

DataStart(file) == Wrapped(file.hsize + 8)

HeaderIsRead(file) ==
    /\ file.opens
    /\ file.hsize % 8 = 0
    /\ Wrapped(DataStart(file) + 8) <= file.size
    /\ file.reads
    /\ file.json = "object"

ByteSize(entry) == entry.end - entry.begin
Numel(entry) == FoldLeft(LAMBDA n, d : Wrapped(n * d), 1, entry.shape)

\* a number beyond the range of int may come out negative, and passes
ShapeIsUsable(entry) ==
    entry.shape # <<>> /\ \A i \in DOMAIN entry.shape : entry.shape[i] <= MaxDim

\* the byte of the file at which the tensor begins
ByteOffset(file, entry) == Wrapped(DataStart(file) + entry.begin)

InFile(file, entry) == Wrapped(DataStart(file) + entry.end) <= file.size

\* Which of the checks, made in this order, an entry fails first.  The names
\* of a JSON object are distinct, so the check for duplicates never fails.
Verdict(file, name, entry) ==
    IF ~entry.object THEN "shape"
    ELSE IF entry.dtype \notin DOMAIN DtypeBytes THEN "dtype"
    ELSE IF ~(entry.dtype = "BF16" \/ (entry.dtype = "F32" /\ MayBeF32(name))) THEN "dtype"
    ELSE IF ~ShapeIsUsable(entry) THEN "shape"
    ELSE IF entry.end <= entry.begin \/ ~InFile(file, entry) THEN "bounds"
    ELSE IF ByteOffset(file, entry) % 8 # 0 THEN "alignment"
    ELSE IF Wrapped(Numel(entry) * DtypeBytes[entry.dtype]) # ByteSize(entry) THEN "byteMismatch"
    ELSE "accepted"

\* the empty name is passed over, and "__metadata__" with all that begins alike
IsTensorName(name) == name # <<>> /\ name[1] \notin Underscored

\* tensors_ after open(), empty if it returned false
TensorNames(file) ==
    {name \in DOMAIN file.entries :
        /\ HeaderIsRead(file)
        /\ IsTensorName(name)
        /\ Verdict(file, name, file.entries[name]) = "accepted"}
=============================================================================
