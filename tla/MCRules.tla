------------------------------ MODULE MCRules ------------------------------
(* Reports on both sides of every threshold; small disk tables, deployments
   of two nodes, and objects and texts of every type. *)
EXTENDS Rules, TLC

MCSilent == [k \in {} |-> 0]

Counts == {[k \in {} |-> 0]} \cup
          {[k \in {key} |-> 1] : key \in {"alienCount", "corruptedBlobCount"}}
Loads == {[k \in {} |-> 0]} \cup {[k \in {"cpuLoad"} |-> v] : v \in {89, 90, 91}}
Spaces == {[k \in {} |-> 0], [k \in {"freeSpace"} |-> 1]} \cup
          {[k \in {"totalSpace", "freeSpace"} |->
              IF k = "totalSpace" THEN 100 ELSE v] : v \in {0, 9, 10, 11, 95, 101}}
Rams == {[k \in {} |-> 0]} \cup
        {[k \in {"virtualRam", "totalRam"} |->
            IF k = "totalRam" THEN 8 ELSE v] : v \in {8, 9}}

MCReports == {c @@ l @@ s @@ r : c \in Counts, l \in Loads, s \in Spaces, r \in Rams}

DiskNames == {"disk1", "disk2"}
Entries == [name : DiskNames, path : {"/a", "/b"}]

MCTables ==
    [disks : BoundedSeq(Entries, 3),
     space : [total : {0, 20, 100},
              byDisk : UNION {[names -> {0, 18, 19, 90, 91, 101}] : names \in SUBSET DiskNames}]]

MCDeployments ==
    {[listed |-> <<[name |-> "n1", address |-> a], [name |-> n, address |-> b]>>,
      port |-> p, sites |-> s] :
        a \in Address, b \in Address, n \in {"n1", "n2"}, p \in Ports,
        s \in {f \in [{"n1", "n2"} -> Hosts \X Ports] : f["n1"] # f["n2"]}}

MCPieces == STRING

\* What is printed of the numbers, of which one has no printed form of its own.
MCNumbers == [piece \in {"7", "+7"} |-> "7"]

Values(field) ==
    CASE field.kind = "text" -> {<<"">>, <<"a">>, <<"a", field.key>>}
      [] field.kind = "int" -> {<<"7">>}
      [] field.kind = "bool" -> {<<"true">>, <<"false">>}
      [] field.kind = "list" -> {<<"">>, <<"a">>, <<"a", "a">>}
      [] field.kind = "nested" -> {<<"a">>}

ValuesOf(fields, key) ==
    Values(CHOOSE field \in ToSet(fields) : field.key = key)

ObjectsOf(fields) ==
    {object \in UNION {[keys -> UNION {Values(f) : f \in ToSet(fields)}] :
            keys \in {Required(fields) \cup some : some \in SUBSET Keys(fields)}} :
        \A key \in DOMAIN object : object[key] \in ValuesOf(fields, key)}

MCForms == UNION {[fields : {fs}, object : ObjectsOf(fs)] : fs \in Objects}

\* Two pairs of a key and a value, or three where three fields are required, or
\* an odd number of pieces.
PairsOf(fields) == (Keys(fields) \cup {"key"}) \X {"", "a", "+7", "true"}

TextsOf(fields) ==
    {<<"">>, <<"a">>}
    \cup {<<k, "a", k>> : k \in Keys(fields)}
    \cup {FlattenSeq(pairs) :
        pairs \in BoundedSeq(PairsOf(fields), IF Cardinality(Required(fields)) = 3 THEN 3 ELSE 2)
                  \ {<<>>}}

MCTexts == UNION {[fields : {fs}, text : TextsOf(fs)] : fs \in Objects}
=============================================================================
