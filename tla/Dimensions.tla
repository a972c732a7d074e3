----------------------------- MODULE Dimensions -----------------------------
(***************************************************************************)
(* jenkins_jobs/dimensions.py: the points at which a template is           *)
(* instantiated, one per combination of the values of its axes, and the    *)
(* points an exclude list takes out.                                       *)
(*                                                                         *)
(* Parameters are a function from names to values.  A value is a sequence  *)
(* of points: what it `is', and the parameters it brings along.  A plain   *)
(* value is a sequence of one.                                             *)
(***************************************************************************)
EXTENDS Naturals, Sequences, SequencesExt

NoParams == << >>

Scalar(v) == <<[is |-> v, also |-> NoParams]>>

Param(name, value) == [p \in {name} |-> value]

(* LocDict.merge: the later argument wins.                                 *)
Merge(low, high) ==
    [p \in DOMAIN low \cup DOMAIN high |-> IF p \in DOMAIN high THEN high[p] ELSE low[p]]

MergeAll(dicts) == FoldLeft(Merge, NoParams, dicts)

(* _decode_axis_value: the parameters of a point may override the value of *)
(* the axis itself.                                                        *)
AxisPoints(axis, value) ==
    [i \in DOMAIN value |->
        [axis |-> axis,
         params |-> Merge(Param(axis, Scalar(value[i].is)), value[i].also)]]

(* itertools.product: the last axis varies fastest.                        *)
Product(dims) ==
    FoldLeft(LAMBDA points, dim :
                 FlattenSeq([i \in DOMAIN points |->
                     [j \in DOMAIN dim |-> Append(points[i], dim[j])]]),
             << << >> >>, dims)

(* What a point of one axis says of another axis is kept to the end, so    *)
(* that it wins whatever the order of the axes.                            *)
PointParams(point) ==
    LET overrides(dim) == Restrict(dim.params, DOMAIN dim.params \ {dim.axis})
    IN  Merge(MergeAll([i \in DOMAIN point |-> point[i].params]),
              MergeAll([i \in DOMAIN point |-> overrides(point[i])]))

(* An axis without a value here may get one from another axis.             *)
enum_dimensions_params(axes, params, defaults) ==
    LET valued(a) == a \in DOMAIN params \cup DOMAIN defaults
        known == FlattenSeq([i \in DOMAIN axes |-> IF valued(axes[i]) THEN <<axes[i]>> ELSE << >>])
        value(a) == IF a \in DOMAIN params THEN params[a] ELSE defaults[a]
        points == Product([i \in DOMAIN known |-> AxisPoints(known[i], value(known[i]))])
    IN  [i \in DOMAIN points |-> PointParams(points[i])]

(* _match_exclude, for a dictionary given as a sequence of <<axis, value>>:*)
(* the first axis that is unknown or has another value decides.            *)
Match(params, exclude) ==
    LET decides(pair) == \/ pair[1] \notin DOMAIN params
                         \/ params[pair[1]] # pair[2]
        i == SelectInSeq(exclude, decides)
    IN  IF exclude = << >> THEN "error"
        ELSE IF i = 0 THEN "matches"
        ELSE IF exclude[i][1] \in DOMAIN params THEN "differs" ELSE "error"

(* The first dictionary that matches, or is wrong, decides.                *)
is_point_included(exclude_list, params) ==
    LET i == SelectInSeq(exclude_list, LAMBDA e : Match(params, e) # "differs")
    IN  IF i = 0 THEN "included"
        ELSE IF Match(params, exclude_list[i]) = "matches" THEN "excluded" ELSE "error"
=============================================================================
