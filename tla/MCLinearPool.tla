----------------------------- MODULE MCLinearPool -----------------------------
EXTENDS Deployments

\* Nothing is asked for: the tokens alone matter here.
NoValues == [f \in Fields |-> {}]
Zeros == [f \in Numeric |-> 0]

Spec == DeploymentsInit /\ [][DeploymentsNext]_deploymentVars
===============================================================================
