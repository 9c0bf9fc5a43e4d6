----------------------------- MODULE QueryForm -----------------------------
(***************************************************************************)
(* The data of Bob as query parameters: to_string and from_str of the      *)
(* objects of connector/dto.rs.  The backend itself exchanges JSON; this   *)
(* is the library's second form of the same objects.                       *)
(*                                                                         *)
(* A text is the sequence of the pieces between its commas, so the empty   *)
(* text is one empty piece and a value with a comma in it is of two        *)
(* pieces.  An object is the function of its fields that are present.      *)
(***************************************************************************)
EXTENDS Integers, Sequences, SequencesExt

CONSTANTS
    Pieces,     \* the texts without a comma
    Numbers     \* the pieces that read as an i32, and how each is printed

\* What is printed of a number reads as that number.
ASSUME NumbersAssumption ==
    /\ DOMAIN Numbers \subseteq Pieces
    /\ \A piece \in DOMAIN Numbers :
          Numbers[piece] \in DOMAIN Numbers /\ Numbers[Numbers[piece]] = Numbers[piece]

\* A field: "nested" objects are not printed, and neither they nor a "list" of
\* texts are read.
Opt(key, kind) == [key |-> key, kind |-> kind, required |-> FALSE]
Req(key, kind) == [key |-> key, kind |-> kind, required |-> TRUE]

Dir == <<Opt("name", "text"), Opt("path", "text"), Opt("children", "nested")>>

DiskState == <<Req("name", "text"), Req("path", "text"), Req("is_active", "bool")>>

DistrFunc == <<Opt("func", "text")>>

Error == <<Req("code", "text"), Req("message", "text")>>

Node == <<Req("name", "text"), Req("address", "text"), Opt("vdisks", "nested")>>

NodeConfiguration == <<Opt("blob_file_name_prefix", "text"), Opt("root_dir_name", "text")>>

Partition ==
    <<Opt("vdisk_id", "int"), Opt("node_name", "text"), Opt("disk_name", "text"),
      Opt("timestamp", "int"), Opt("records_count", "int")>>

Replica == <<Req("node", "text"), Req("disk", "text"), Req("path", "text")>>

StatusExt == <<Opt("status", "int"), Opt("ok", "bool"), Opt("msg", "text")>>

VDisk == <<Req("id", "int"), Opt("replicas", "nested")>>

VDiskPartitions ==
    <<Opt("vdisk", "int"), Opt("node", "text"), Opt("disk", "text"),
      Opt("partitions", "list")>>

Version == <<Opt("version", "text"), Opt("build_time", "text")>>

\* The two versions are read by Version's from_str, which a single piece never
\* satisfies.
VersionInfo == <<Opt("bobversion", "nested"), Opt("pearlversion", "nested")>>

Objects == {Dir, DiskState, DistrFunc, Error, Node, NodeConfiguration, Partition,
            Replica, StatusExt, VDisk, VDiskPartitions, Version, VersionInfo}

Keys(fields) == {field.key : field \in ToSet(fields)}
Required(fields) == {field.key : field \in {f \in ToSet(fields) : f.required}}
KindOf(fields, key) == (CHOOSE f \in ToSet(fields) : f.key = key).kind

ASSUME KeysAssumption == \A fields \in Objects : Keys(fields) \subseteq Pieces

\* An object of a type: what is required is there, numbers and booleans are as
\* they are printed.
IsObject(fields, object) ==
    /\ object = [key \in DOMAIN object |-> object[key]]
    /\ Required(fields) \subseteq DOMAIN object /\ DOMAIN object \subseteq Keys(fields)
    /\ \A key \in DOMAIN object :
          /\ object[key] \in Seq(Pieces)
          /\ KindOf(fields, key) = "int" =>
                object[key] \in {<<Numbers[piece]>> : piece \in DOMAIN Numbers}
          /\ KindOf(fields, key) = "bool" => object[key] \in {<<"true">>, <<"false">>}

-----------------------------------------------------------------------------
(* Printing: <<piece, ...>> *)

PrintField(field, object) ==
    IF field.key \in DOMAIN object /\ field.kind # "nested"
    THEN <<field.key>> \o object[field.key]
    ELSE <<>>

\* Mutant of Join: empty values are left out.
JoinNonEmpty(fields, object) ==
    FlattenSeq([i \in DOMAIN fields |->
        IF fields[i].key \in DOMAIN object /\ object[fields[i].key] = <<"">> THEN <<>>
        ELSE PrintField(fields[i], object)])

Join(fields, object) ==
    FlattenSeq([i \in DOMAIN fields |-> PrintField(fields[i], object)])

\* to_string: without any field there still is the empty text.
ToText(fields, object) ==
    LET pieces == Join(fields, object) IN IF pieces = <<>> THEN <<"">> ELSE pieces

-----------------------------------------------------------------------------
(* Reading: the set of the object read, empty on an error *)

ReadValue(kind, piece) ==
    CASE kind = "text" -> {<<piece>>}
      [] kind = "int" -> IF piece \in DOMAIN Numbers THEN {<<Numbers[piece]>>} ELSE {}
      [] kind = "bool" -> {<<piece>>} \cap {<<"true">>, <<"false">>}
      [] OTHER -> {}

\* The loop of parse: keys and values in turn; the last key must have a value.
Pairs(text) ==
    {[i \in 1 .. m |-> [key |-> text[2 * i - 1], val |-> text[2 * i]]] :
        m \in {j \in {Len(text) \div 2} : Len(text) = 2 * j}}

\* from_str: every key is known and every value is read, a key that is repeated
\* counts once, with its first value.
FromText(fields, text) ==
    LET Read(pair) ==
            IF pair.key \in Keys(fields)
            THEN ReadValue(KindOf(fields, pair.key), pair.val) ELSE {}
        First(pairs, key) ==
            pairs[CHOOSE i \in DOMAIN pairs :
                pairs[i].key = key /\ \A j \in 1 .. i - 1 : pairs[j].key # key] IN
    {[key \in {pair.key : pair \in ToSet(pairs)} |->
            CHOOSE value \in Read(First(pairs, key)) : TRUE] :
        pairs \in {ps \in Pairs(text) :
            /\ \A pair \in ToSet(ps) : Read(pair) # {}
            /\ Required(fields) \subseteq {pair.key : pair \in ToSet(ps)}}}

-----------------------------------------------------------------------------
(* What the two forms promise each other *)

\* An object comes back from its text if and only if it has something to print,
\* nothing that is not printed, no list, and no value with a comma.
ComesBack(fields, object) ==
    FromText(fields, ToText(fields, object)) = {object} <=>
        /\ DOMAIN object # {}
        /\ \A key \in DOMAIN object :
            KindOf(fields, key) \in {"text", "int", "bool"} /\ Len(object[key]) = 1

\* What is read from a text is printed and read again without a change,
\* however the text repeats keys or writes numbers.
IsSettled(fields, text) ==
    \A object \in FromText(fields, text) :
        FromText(fields, ToText(fields, object)) = {object}
=============================================================================
