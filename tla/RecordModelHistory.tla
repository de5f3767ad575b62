------------------------- MODULE RecordModelHistory -------------------------
(* AbstractRecordModel with a history variable: every result that asking for *)
(* the target has had so far.                                                *)
EXTENDS AbstractRecordModel

VARIABLE past

HistoryInit == ModelInit /\ past = {{}, Find(target)}
HistoryNext == ModelNext /\ past' = past \cup {Find(target)'}
HistorySpec == /\ HistoryInit /\ [][HistoryNext]_<<modelVars, past>>
               /\ WF_modelVars(ServerHandles) /\ WF_modelVars(ClientReceives)

\* The rows shown are at any time exactly those the target had at one moment:
\* never a mixture of two moments, although find, subscribe and the pushes are
\* separate messages and the catch-up re-reads records changed since.
ShownTogetherOnce == Range(shown) \in past
=============================================================================
