------------------------ MODULE MCTranslationTables ------------------------
(* Small instances of TranslationTables for TLC.                               *)
EXTENDS TranslationTables

\* Wings are dropped by the second upload, which brings a trait of its own.
MCTraitNames == [n \in Uploads |-> IF n < 2 THEN {"legs", "wings"} ELSE {"legs", "fins"}]

\* The splice of the fish has a trait that only the second upload defines.
MCTraitsOf == [n \in Uploads |-> [s \in Splices |->
                  IF s = "fish" THEN {"fins"} ELSE {"legs", "wings"}]]
=============================================================================
