------------------------- MODULE MCExpandParameters -------------------------
(* Three parameters and the template's name, which refer to any of each    *)
(* other, with defaults for all of them or for none.                       *)
EXTENDS ExpandParameters

CONSTANTS name, p, q, template_name

MCFormats ==
    {[uses |-> us, optional |-> us \cap os] :
        us \in SUBSET {name, p, q} \cup {{p, template_name}}, os \in {{}, {p}}}
=============================================================================
