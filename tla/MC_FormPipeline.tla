-------------------------- MODULE MC_FormPipeline --------------------------
(***************************************************************************)
(* The contact form for TLC: a required email field and an optional      *)
(* string field, each with a valid, an invalid and the blank value.        *)
(***************************************************************************)
EXTENDS FormPipeline

CONSTANTS Email, Name

ContactTypes  == [f \in {Email, Name} |-> IF f = Email THEN "email" ELSE "string"]
ContactValues == [f \in {Email, Name} |->
                    IF f = Email THEN {"blank", "email", "name"}
                                 ELSE {"blank", "name", "junk"}]
=============================================================================
