------------------------ MODULE MCAgentInvestigation ------------------------
\* Instances of AgentInvestigation for TLC, and the report that the worker
\* makes of what the two agents answered.
EXTENDS AgentInvestigation, ReportAssembly, TLC

Routing == INSTANCE ReviewProvenance

Symmetry == Permutations(Workers)

\* Runs are classified, sessions accounted for and grants bound as AgentProtocol
\* says, and the author of a change cannot choose its reviewer, over bounded
\* inputs; evaluated once, in the initial state.
ProtocolHolds == Init => ProtocolAgreed /\ Routing!ReviewerIndependent

\* A report holds nothing that the agents' answers do not support, over bounded
\* candidates and decisions; evaluated once, in the initial state.
ReportIsSound == Init => ReportsSound
=============================================================================
