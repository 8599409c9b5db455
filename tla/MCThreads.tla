------------------------------ MODULE MCThreads ------------------------------
(***************************************************************************)
(* The pool of threads and the HTTP server, each with its own thread of    *)
(* control: one of them moves, the other stays as it began, and fairness   *)
(* is asked only of the one that moves.                                    *)
(***************************************************************************)
EXTENDS ThreadPool, HttpServer
VARIABLE active

Ask(kind, parts) == [kind |-> kind, parts |-> parts, known |-> TRUE, close |-> FALSE]
One == <<Ask("bad", <<>>)>>
MCScripts ==
  {<<Ask("length", <<2>>), Ask("none", <<>>)>>,
   <<Ask("chunked", <<2, 1>>), [Ask("length", <<1>>) EXCEPT !.close = TRUE]>>,
   <<[Ask("length", <<1>>) EXCEPT !.known = FALSE]>>,
   One, <<Ask("length", <<4>>)>>, <<Ask("chunked", <<2, 2>>)>>, <<Ask("chunked", <<-1>>)>>}

MCInit == /\ WorkInit /\ active \in {"workers", "http"}
          /\ HttpInit /\ (active = "http" \/ \A c \in Conns : conn[c].script = One)
MCNext ==
  /\ UNCHANGED active
  /\ \/ active = "workers" /\ WorkNext /\ UNCHANGED httpVars
     \/ active = "http" /\ HttpNext /\ UNCHANGED workVars

If(a, A) == active = a /\ A
MCFairness ==
  /\ \A w \in Workers : WF_workVars(If("workers", Worker(w)))
  /\ \A c \in Callers : WF_workVars(If("workers", Caller(c)))
  /\ \A c \in Conns : /\ WF_httpVars(If("http", Handler(c))) /\ WF_httpVars(If("http", Release(c)))
                      /\ WF_httpVars(If("http", OnTimer(c)))
  /\ WF_httpVars(If("http", StopConnections)) /\ WF_httpVars(If("http", StopService))
  /\ WF_httpVars(If("http", Join))

MCSpec == MCInit /\ [][MCNext]_<<active, workVars, httpVars>> /\ MCFairness
=============================================================================
