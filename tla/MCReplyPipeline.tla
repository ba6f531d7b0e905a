--------------------------- MODULE MCReplyPipeline ---------------------------
EXTENDS ReplyPipeline

Config(type, maxChars) ==
  [model |-> TRUE, key |-> TRUE, tools |-> TRUE, steps |-> 3, chats |-> 0, diaries |-> 1,
   maxChars |-> maxChars, thinking |-> [type |-> type, budget |-> 1]]

\* The last version has no model, no key and no tools.
ThreeVersions ==
  <<Config("adaptive", 9), [Config("adaptive", 4) EXCEPT !.chats = 2],
    [Config("enabled", 0) EXCEPT !.model = FALSE, !.key = FALSE, !.tools = FALSE]>>

Read(of, limit) == [tool |-> "read", of |-> of, limit |-> limit]
Mcp(known, fits) == [tool |-> "mcp", known |-> known, fits |-> fits]
SomeCalls == {Read("chat", 0), Read("chat", 1), Read("diary", 9), Read("chat", -1), [tool |-> "write"], Mcp(FALSE, TRUE)}

Nothing == [reloads |-> 0, commands |-> 0, clears |-> 0, restarts |-> 0, calls |-> 0,
            ai |-> 0, poke |-> 0, talk |-> 0, intent |-> 0, ambient |-> 0,
            old |-> 0, notes |-> 1, version |-> 1, store |-> "sqlite"]

TwoQuestions == [Nothing EXCEPT !.ai = 2, !.clears = 1, !.old = 1]
Overheard    == [Nothing EXCEPT !.ai = 2, !.ambient = 1, !.old = 1]
Buried       == [Nothing EXCEPT !.ai = 1, !.ambient = 2, !.version = 2]
Restarted    == [Nothing EXCEPT !.ai = 2, !.restarts = 1, !.old = 1]
InMemory     == [Nothing EXCEPT !.ai = 1, !.poke = 1, !.clears = 1, !.restarts = 1, !.old = 1, !.store = "memory"]
Reloaded     == [Nothing EXCEPT !.poke = 1, !.reloads = 2, !.commands = 1]
Reconfigured == [Nothing EXCEPT !.ai = 1, !.reloads = 1, !.commands = 1, !.calls = 1, !.restarts = 1, !.version = 2]
Engine       == [Nothing EXCEPT !.talk = 1, !.intent = 1, !.reloads = 1, !.calls = 1]
Paging       == [Nothing EXCEPT !.ai = 1, !.ambient = 2, !.calls = 3, !.old = 2]
PagingMemory == [Paging EXCEPT !.ambient = 1, !.clears = 1, !.store = "memory"]

Scenarios == {TwoQuestions, Overheard, Buried, Restarted, InMemory, Reloaded, Reconfigured, Engine, Paging, PagingMemory}
=============================================================================
