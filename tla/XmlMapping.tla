------------------------------ MODULE XmlMapping ------------------------------
(***************************************************************************)
(* How a component of a job (jenkins_jobs/modules) turns its options into  *)
(* elements of XML: convert_mapping_to_xml of modules/helpers.py and the   *)
(* few forms of Python the components are written in.                      *)
(*                                                                         *)
(* The data of a component is a function from the options that are given   *)
(* to their values.  An option of a dictionary in a dictionary, or of the  *)
(* entries of a list, is named by its path; a list has one entry.  An      *)
(* option that no condition reads has a value nothing else has, "bad" is   *)
(* a value outside the ones an option may have, and the value of           *)
(* "@version" is the version of the plugin.  What a component does is a    *)
(* record of its outcome, "written", "refused" (a JenkinsJobsException)    *)
(* or "crashed" (another exception), and the elements it writes: for each  *)
(* its parent, its tag and the value in it, "" for a default.  Elements    *)
(* that hold a constant are left out.                                      *)
(***************************************************************************)
EXTENDS Naturals, Sequences, FiniteSets, TLC

Given(d, o) == o \in DOMAIN d
Is(d, o, value) == Given(d, o) /\ d[o] = value
On(d, o) == Is(d, o, "true")
Off(d, o) == Is(d, o, "false")
IsOneOf(d, o, values) == Given(d, o) /\ d[o] \in values
Absent(d, os) == os \ DOMAIN d # {}
AnyOf(d, os) == os \cap DOMAIN d # {}

(* data.get(o, default)                                                    *)
Value(d, o, default) == IF Given(d, o) THEN d[o] ELSE default

(* The version of the plugin is at least the `since'-th of these; the last *)
(* is meant when none is known.                                            *)
AtLeast(d, versions, since) ==
    ~Given(d, "@version") \/ \E i \in DOMAIN versions : versions[i] = d["@version"]
                                 /\ \E j \in DOMAIN versions : versions[j] = since /\ j <= i

Nothing == [outcome |-> "written", xml |-> {}]
Refused == [outcome |-> "refused", xml |-> {}]
Crashed == [outcome |-> "crashed", xml |-> {}]
Element(parent, tag, value) == [outcome |-> "written", xml |-> {<<parent, tag, value>>}]

(* First a, then b: an exception in a is the end.                          *)
a (+) b == IF a.outcome # "written" THEN a
           ELSE [outcome |-> b.outcome, xml |-> a.xml \cup b.xml]

When(condition, a) == IF condition THEN a ELSE Nothing
RefuseIf(condition) == IF condition THEN Refused ELSE Nothing
CrashIf(condition) == IF condition THEN Crashed ELSE Nothing

(* An element for each option of the mapping, with its default if the      *)
(* option is not given; for those in `required' there is none.             *)
Xml(parent, d, mapping) ==
    [outcome |-> "written", xml |-> {<<parent, m[2], Value(d, m[1], "")>> : m \in mapping}]

Required(parent, d, mapping) ==
    RefuseIf(\E m \in mapping : ~Given(d, m[1])) (+) Xml(parent, d, mapping)

(* An element for each option of the mapping that is given.                *)
Optional(parent, d, mapping) == Xml(parent, d, {m \in mapping : Given(d, m[1])})

(* As a bug would have it: a list of values that is never looked at.       *)
ChoiceUnchecked(parent, d, mapping) == Xml(parent, d, mapping)

(* A mapping with the values an option may have: others are refused.       *)
Choice(parent, d, mapping) ==
    RefuseIf(\E m \in mapping : Is(d, m[1], "bad")) (+) Xml(parent, d, mapping)

(* An element for each option of the mapping that is true.                 *)
Switch(parent, d, mapping) == Xml(parent, d, {m \in mapping : On(d, m[1])})

(* data[o] for each of them, and dictionary[data[o]].                      *)
Lookup(d, os) == CrashIf(Absent(d, os))
LookupValue(d, o) == CrashIf(Is(d, o, "bad"))

==============================================================================
