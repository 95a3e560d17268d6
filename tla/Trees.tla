------------------------------- MODULE Trees --------------------------------
(***************************************************************************)
(* One command that works on trees of files: a build, one RUN step of a    *)
(* build with its processes, a sync or copy, the path at one end of it, or *)
(* a removal.                                                              *)
(***************************************************************************)
EXTENDS ImageBuild, RunStep, Mirror, Endpoint, Levels

vars == <<buildVars, stepVars, mirrorVars, endpointVars, levelVars>>

Init == \/ BuildInit /\ NoStep /\ NoMirror /\ NoEndpoint /\ NoLevels
        \/ NoBuild /\ RunStepInit /\ NoMirror /\ NoEndpoint /\ NoLevels
        \/ NoBuild /\ NoStep /\ MirrorInit /\ NoEndpoint /\ NoLevels
        \/ NoBuild /\ NoStep /\ NoMirror /\ EndpointInit /\ NoLevels
        \/ NoBuild /\ NoStep /\ NoMirror /\ NoEndpoint /\ LevelsInit

Next == \/ BuildStep /\ UNCHANGED <<stepVars, mirrorVars, endpointVars, levelVars>>
        \/ StepStep /\ UNCHANGED <<buildVars, mirrorVars, endpointVars, levelVars>>
        \/ MirrorStep /\ UNCHANGED <<buildVars, stepVars, endpointVars, levelVars>>
        \/ EndpointStep /\ UNCHANGED <<buildVars, stepVars, mirrorVars, levelVars>>
        \/ LevelsStep /\ UNCHANGED <<buildVars, stepVars, mirrorVars, endpointVars>>

Spec == Init /\ [][Next]_vars /\ StepFairness /\ EndpointFairness

\* Every variable keeps its type.
TypeOK == BuildTypeOK /\ RunStepTypeOK /\ MirrorTypeOK /\ EndpointTypeOK /\ LevelsTypeOK
=============================================================================
