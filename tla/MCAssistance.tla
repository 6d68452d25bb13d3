----------------------------- MODULE MCAssistance -----------------------------
(* Small instances of the gateway's middleware for TLC.                    *)
EXTENDS Assistance, TLC

MCLimit == [p \in {"api", "ai"} |-> IF p = "api" THEN 1 ELSE 0]
MCTwo == [p \in Paths |-> 2]
MCOperations == {PostNotes, PostTranscription, FetchStudyHistory}
=============================================================================
