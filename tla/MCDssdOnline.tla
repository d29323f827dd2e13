----------------------------- MODULE MCDssdOnline -----------------------------
(***************************************************************************)
(* Two modules of two strips for either side.  The energies of the second  *)
(* and the third pixel are near to each other's and to the first's, the    *)
(* third shares a module with each of them.                                *)
(***************************************************************************)
EXTENDS DssdOnline

Pixels ==
    { [x |-> 0, y |-> 0, peak |-> 0],
      [x |-> 2, y |-> 2, peak |-> 1],
      [x |-> 1, y |-> 3, peak |-> 2] }

\* The publisher never looks at the analysis, and what was published stays as it is: so the
\* analysis may decode an id and fill its vectors before the next hit is stored, or never.
\* Any other order leaves the same behind.
AnalysisFirst ==
    /\ vectors # {} => UNCHANGED simulationVars
    /\ decoded' # decoded => \A m \in Modules : packet[m] = <<>>
==============================================================================
