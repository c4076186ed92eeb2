---------------------------- MODULE MediaLibrary ----------------------------
(***************************************************************************)
(* What a session's media promise to its owner: the files of one upload    *)
(* appear together or not at all, a file that was withdrawn never comes    *)
(* back, and nothing appears in a session that is closed.                  *)
(***************************************************************************)
CONSTANTS Old,   \* the files the session holds already
          New    \* those one upload may add

VARIABLES visible, batch, open

Init == visible = Old /\ batch = {} /\ open = TRUE

Publish ==
  /\ open /\ batch = {}
  /\ batch' \in (SUBSET New) \ {{}}
  /\ visible' = visible \cup batch'
  /\ UNCHANGED open

Withdraw ==
  /\ \E k \in visible : visible' = visible \ {k}
  /\ UNCHANGED <<batch, open>>

Close ==
  /\ open
  /\ open' = FALSE /\ visible' = {}
  /\ UNCHANGED batch

Next == Publish \/ Withdraw \/ Close

Spec == Init /\ [][Next]_<<visible, batch, open>>
=============================================================================
