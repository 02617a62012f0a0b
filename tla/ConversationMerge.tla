------------------------- MODULE ConversationMerge -------------------------
(***************************************************************************)
(* How the page merges the conversation the server keeps into the one it   *)
(* shows.  A message carries up to three names: the id it has here, the    *)
(* id the client gave it when it was made (key) and the id the server      *)
(* answered with (srv).  Two messages that share a name are one message.   *)
(* A reply is a single segment here (CopilotStream has several), so the    *)
(* ordering of segments and the fold of artifacts change nothing.          *)
(***************************************************************************)
EXTENDS Naturals, Sequences, SequencesExt

NoName == <<"none", 0>>

\* The statuses of a message that is not answered yet.
Unsettled == {"streaming", "in_flight", "queued"}

isStreaming(m) == m.status \in Unsettled

\* Every name of a message, in the order they are looked up; NoName is no name.
messageAliases(m) == <<m.key, m.srv, m.id>>

\* The message a and b make together: b's fields over a's, a's names first.
Overlay(a, b) == [b EXCEPT !.key = IF a.key # NoName THEN a.key ELSE b.key,
                           !.srv = IF a.srv # NoName THEN a.srv ELSE b.srv]

mergeMessagePair(existing, incoming, preferIncoming) ==
    CASE isStreaming(existing) = isStreaming(incoming) ->
            IF preferIncoming \/ incoming.stamp >= existing.stamp
            THEN Overlay(existing, incoming)
            ELSE existing
      [] isStreaming(existing) /\ ~isStreaming(incoming) ->
            IF preferIncoming THEN Overlay(existing, incoming) ELSE existing
      [] ~isStreaming(existing) /\ isStreaming(incoming) ->
            IF preferIncoming THEN incoming ELSE existing

\* The position of the message that m is among those put so far, 0 when it is a
\* new one: the first of m's names that one of them goes or went by.
resolveKey(put, m) ==
    LET Hits(k) == {i \in DOMAIN put : messageAliases(m)[k] \in put[i].names}
        known == {k \in 1..3 : Hits(k) # {}}
    IN  IF known = {} THEN 0 ELSE CHOOSE i \in Hits(Min(known)) : TRUE

\* A name leads to the message that was registered under it last.
Put(put, m, preferIncoming) ==
    LET i == resolveKey(put, m)
        Registered(msg) == Range(messageAliases(msg)) \ {NoName}
        merged == mergeMessagePair(put[i].msg, m, preferIncoming)
        others == [j \in DOMAIN put |-> [put[j] EXCEPT !.names = @ \ Registered(merged)]]
    IN  IF i = 0 THEN Append(put, [msg |-> m, names |-> Registered(m)])
        ELSE SubSeq(others, 1, i - 1)
                \o <<[msg |-> merged, names |-> put[i].names \cup Registered(merged)]>>
                \o SubSeq(others, i + 1, Len(put))

\* Put, with the value of what was put so far: TLC would work it out again at
\* every use.
PutNext(so, m, preferIncoming) ==
    CHOOSE next \in {Put(put, m, preferIncoming) : put \in {so}} : TRUE

PutAll(put, msgs, preferIncoming) ==
    FoldLeft(LAMBDA so, m : PutNext(so, m, preferIncoming), put, msgs)

\* Mutant: the server's list replaces the local one.
mergeToServer(local, server) == IF server = <<>> THEN local ELSE server

mergeConversationMessages(local, server) ==
    IF server = <<>> THEN local
    ELSE IF local = <<>> THEN server
    ELSE LET both == PutAll(PutAll(<<>>, local, FALSE), server, TRUE)
         IN  [i \in DOMAIN both |-> both[i].msg]

\* A list of settled messages with each id once.
PutOnce(out, m) ==
    LET same == {i \in DOMAIN out : out[i].id = m.id}
    IN  IF same = {} THEN Append(out, m)
        ELSE [out EXCEPT ![CHOOSE i \in same : TRUE] = mergeMessagePair(@, m, m.stamp >= @.stamp)]

dedupeConversationMessages(msgs) == FoldLeft(PutOnce, <<>>, msgs)

\* Two turns in a row that ask and answer the same.
Repeated(msgs, i) ==
    /\ i + 3 <= Len(msgs)
    /\ <<msgs[i].role, msgs[i+1].role, msgs[i+2].role, msgs[i+3].role>>
         = <<"user", "assistant", "user", "assistant">>
    /\ msgs[i].text = msgs[i+2].text
    /\ \/ msgs[i].corr = msgs[i+2].corr
       \/ msgs[i].key = msgs[i+2].key
       \/ msgs[i+1].text = msgs[i+3].text
       \/ msgs[i+1].corr = msgs[i+3].corr

\* Of two answers the settled one stays, and the later one of two alike.
Survivor(a1, a2) ==
    IF a2.status = "succeeded" \/ (a1.status # "succeeded" /\ a2.stamp >= a1.stamp) THEN a2 ELSE a1

collapseDuplicateTurns(msgs) ==
    LET kept[i \in 1..(Len(msgs) + 4)] ==
            IF i > Len(msgs) THEN <<>>
            ELSE IF Repeated(msgs, i)
            THEN <<msgs[i], Survivor(msgs[i+1], msgs[i+3])>> \o kept[i + 4]
            ELSE <<msgs[i]>> \o kept[i + 1]
    IN  IF Len(msgs) < 4 THEN msgs ELSE kept[1]

LastStamp(msgs) == CHOOSE n \in {0} \cup {msgs[i].stamp : i \in DOMAIN msgs} :
                       \A i \in DOMAIN msgs : n >= msgs[i].stamp

\* The server's list is left aside while a turn runs here, or when it knows
\* less than the page does.
shouldSkipConversationHydrate(typing, local, server) ==
    \/ typing
    \/ \E i \in DOMAIN local : isStreaming(local[i])
    \/ Len(local) > Len(server)
    \/ Len(local) = Len(server) /\ LastStamp(local) > LastStamp(server)

resolveHydratedMessages(local, server) ==
    collapseDuplicateTurns(mergeConversationMessages(local, server))
=============================================================================
