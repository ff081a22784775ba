------------------------------ MODULE MCDecoding ------------------------------
(***************************************************************************)
(* Instances of Decoding for TLC: all documents of up to three entries.    *)
(***************************************************************************)
EXTENDS Decoding

MCResolved == [n \in {"list", "include", "T", "U"} |->
                 CASE n = "list" -> "object" [] n = "include" -> "file"
                   [] n = "T" -> "integer" [] n = "U" -> "union"]

\* For each key a value it takes (of some kind at least) and one it may not.
MCEntries ==
    { [key |-> "type", value |-> v] :
         v \in {"", "null", "number", "any", "list", "include", "T", "U", "{json}", "{broken}", "map"} }
      \cup { [key |-> k, value |-> v] :
         k \in {"minLength", "minimum", "format", "enum", "custom"}, v \in {"whole", "fraction", "int8", "list"} }
      \cup { [key |-> k, value |-> v] :
         k \in {"pattern", "required"}, v \in {"text", "true"} }
      \cup { [key |-> k, value |-> v] : k \in {"(note)", "default"}, v \in {"text", "broken"} }
      \cup { [key |-> k, value |-> v] :
         k \in {"fileTypes", "items", "properties", "example", "examples", "facets"}, v \in {"list", "map"} }
      \cup { [key |-> "discriminator", value |-> "text"], [key |-> "allowedTargets", value |-> "list"] }

MCDocuments ==
    UNION { {d \in [1..n -> MCEntries] : \A i, j \in 1..n : d[i].key = d[j].key => i = j} : n \in 0..3 }

=============================================================================
