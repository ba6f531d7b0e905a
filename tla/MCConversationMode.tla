------------------------- MODULE MCConversationMode -------------------------
EXTENDS ConversationMode

Says(who, mention, nick, question) == [by |-> who, mention |-> mention, nick |-> nick, question |-> question]

Chat(who)      == Says(who, FALSE, 0, FALSE)
Ask(who)       == Says(who, FALSE, 0, TRUE)
Mention(who)   == Says(who, TRUE, 0, FALSE)
Call(who)      == Says(who, FALSE, 3, FALSE)
InPassing(who) == Says(who, FALSE, 2, FALSE)

\* Delays as in the example configuration, in seconds.
Quick == [minWait |-> 1, maxWait |-> 3, maxSize |-> 3, strongWait |-> 1, postReply |-> 8,
          followup |-> 90, coldInterval |-> 300, quiet |-> 300]
Slow  == [Quick EXCEPT !.minWait = 0, !.maxWait = 60, !.maxSize = 0, !.postReply = 90]

Debounce == [unit |-> 1, ticks |-> 6, messages |-> 3, looks |-> 0, repeats |-> 0, clears |-> 1, private |-> FALSE,
             policy |-> Quick, waits |-> {1, 3}, kinds |-> {Chat("ann"), Call("bob")}]
Private  == [Debounce EXCEPT !.private = TRUE, !.kinds = {Mention("ann"), Call("ann")}, !.ticks = 4, !.messages = 2]
Thread   == [unit |-> 60, ticks |-> 7, messages |-> 3, looks |-> 1, repeats |-> 0, clears |-> 0, private |-> FALSE,
             policy |-> Slow, waits |-> {}, kinds |-> {Chat("ann"), Mention("ann"), InPassing("bob")}]
Question == [Thread EXCEPT !.unit = 45, !.ticks = 3, !.messages = 3, !.looks = 0, !.repeats = 1, !.kinds = {Chat("ann"), Mention("ann"), Mention("bob")}]
Silence  == [Thread EXCEPT !.ticks = 9, !.messages = 4, !.looks = 0, !.kinds = {Chat("ann"), Ask("bob")}]

Scenarios == {Debounce, Private, Thread, Question, Silence}
=============================================================================
