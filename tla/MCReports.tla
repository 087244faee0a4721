------------------------------ MODULE MCReports ------------------------------
(* An instance of Reports for TLC: which outputs, and where to.             *)
EXTENDS Reports

\* Two paths to one file, one to another.
MCFileOf == [json |-> 1, dotJson |-> 1, yaml |-> 2]

\* Any outputs, to different paths, as ParseArgs guarantees, or to none.
MCSettings ==
    {s \in [write : SUBSET Outputs, path : [Writers -> DOMAIN MCFileOf \cup {Empty}]] :
        s.path["json"] # s.path["yaml"]}
=============================================================================
