SPECIFICATION FairSpec
CONSTANTS
    name = name
    p = p
    q = q
    template_name = template_name
    Params = {name, p, q, template_name}
    First = name
    Verbatim = {template_name}
    Formats <- MCFormats
    Undefined = Undefined
INVARIANTS
    TypeOK
    Verdict
    FilledWithFinalValues
PROPERTIES
    EveryExpansionEnds
