--------------------------- MODULE MCStaleSuffix ---------------------------
(***************************************************************************)
(* One behaviour of Raft, step by step from the empty cluster: a follower  *)
(* whose first entry was replaced keeps the entry behind it, and lets a    *)
(* later leader commit on top of a log that differs from its own.          *)
(***************************************************************************)
EXTENDS RaftClaims

CONSTANTS F, L, N

VARIABLE done   \* how much of Script has happened

\* The answer to a question arrives while the question is of the present term.
Stands(i)      == <<"stands", i, i>>
Votes(i, c)    == <<"votes", i, c>>
Counts(c, i)   == <<"counts", c, i>>
Executes(i)    == <<"executes", i, i>>
Beats(i)       == <<"beats", i, i>>
Appends(i, l)  == <<"appends", i, l>>
Hears(l, i)    == <<"hears", l, i>>

Script == <<
  \* term 1: F leads and logs two entries nobody else gets
  Stands(F), Votes(N, F), Counts(F, N), Executes(F), Executes(F),
  \* term 2: L leads and logs one entry nobody else gets; F sees the term
  Stands(L), Stands(L), Votes(N, L), Votes(F, L), Counts(L, N), Executes(L),
  \* term 3: F leads again and brings its two entries to N; L sees the term
  Stands(F), Votes(N, F), Votes(L, F), Counts(F, N),
  Beats(F), Appends(N, F), Hears(F, N), Beats(F), Appends(N, F),
  \* term 4: L leads again; its entry replaces the first of F, the second stays
  Stands(L), Votes(N, L), Counts(L, N),
  Beats(L), Appends(F, L), Hears(L, F), Beats(L), Appends(F, L),
  \* term 5: F votes for N because of that second entry; N logs a third and
  \* commits all three once F has it
  Stands(N), Votes(F, N), Counts(N, F), Executes(N),
  Beats(N), Appends(F, N), Hears(N, F) >>

Perform(s) ==
  LET i == s[2]
      j == s[3]
  IN
  \/ s[1] = "stands" /\ Stand4Election(i)
  \/ s[1] = "executes" /\ \E c \in Command : Execute(i, c)
  \/ s[1] = "beats" /\ Heartbeat(i)
  \/ /\ s[1] = "votes"
     /\ \E m \in voteRequests :
          m.src = j /\ m.dst = i /\ m.term = term[j] /\ HandleVoteRequest(i, m)
  \/ /\ s[1] = "counts"
     /\ \E m \in voteReplies :
          m.src = j /\ m.dst = i /\ m.term = term[i] /\ HandleVoteReply(i, m)
  \/ /\ s[1] = "appends"
     /\ \E m \in appendRequests :
          /\ m.src = j /\ m.dst = i /\ m.term = term[j] /\ m.round = round[j]
          /\ HandleAppendEntries(i, m)
  \/ /\ s[1] = "hears"
     /\ \E m \in appendReplies :
          /\ m.src = j /\ m.dst = i /\ m.term = term[i] /\ m.round = round[i]
          /\ HandleAppendReply(i, m)

ScriptInit == Init /\ done = 0
ScriptStep ==
  \E k \in 1..Len(Script) : /\ k = done + 1
                            /\ Perform(Script[k])
                            /\ done' = k

ScriptSpec == ScriptInit /\ [][ScriptStep]_<<vars, done>>
=============================================================================
