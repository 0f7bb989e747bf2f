------------------------ MODULE MCPrewarmedIsolate ------------------------
(* Model-checking instance of PrewarmedIsolate: one isolate driven by an  *)
(* unconstrained caller that may call the API in any order it allows.     *)
EXTENDS PrewarmedIsolate

MCIsolates == {1}
MCOutcomes == {"ok", "throw", "hang"}
MCMaxLogs == 2
=============================================================================
