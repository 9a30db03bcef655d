--------------------------- MODULE MCServiceStart ---------------------------
(***************************************************************************)
(* ServiceStart for TLC: the files are the one that comes with the         *)
(* services, an empty one and one that turns everything on, each with any  *)
(* one section written in any way.                                         *)
(***************************************************************************)
EXTENDS ServiceStart

Missing == [form |-> "missing", active |-> "unset", target |-> FALSE, mode |-> "unset"]

Set(active, target, mode) == [form |-> "map", active |-> active, target |-> target, mode |-> mode]

Shipped == [s \in Sections |->
    Set(IF s \in {"logs.local", "logs.span"} THEN "true" ELSE "false", TRUE, "grpc")]

Empty == [s \in Sections |-> Missing]

Full == [s \in Sections |-> Set("true", TRUE, "grpc")]

Variants ==
    { Missing,
      [Missing EXCEPT !.form = "scalar"],
      Set("unset", TRUE, "grpc"), Set("false", FALSE, "other"), Set("other", TRUE, "grpc"),
      Set("true", TRUE, "unset"), Set("true", TRUE, "other"), Set("true", FALSE, "grpc") }

MCFiles ==
    {Unreadable} \cup
    {[base EXCEPT ![s] = v] : base \in {Shipped, Empty, Full}, s \in Sections, v \in Variants}

MCOptionSets == {{}, DbOptions} \cup {{o} : o \in DbOptions}
=============================================================================
