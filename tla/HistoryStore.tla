---------------------------- MODULE HistoryStore ----------------------------
(***************************************************************************)
(* Reading the history of a session: the lists of the chat log and diary    *)
(* stores (internal/chatlog, internal/diary), the limits of the tools that  *)
(* read them (internal/llm/tools) and the window of the newest entries that *)
(* the context assembler shows the model (internal/ctxasm).                 *)
(*                                                                          *)
(* A history is the sequence of its rows, oldest first.  A cursor is the    *)
(* number of rows already listed, counted from the newest one.              *)
(***************************************************************************)
EXTENDS Integers, Sequences, SequencesExt

CONSTANTS
  DefaultRead,  \* entries a tool reads when the model gives no limit
  MaxRead,      \* entries a tool reads at most
  ResultRows,   \* entries that fit into the result of a tool
  RowChars,     \* characters of a rendered entry
  MetaChars     \* characters of the meta block

ASSUME HistoryConstants ==
  /\ DefaultRead \in Nat \ {0} /\ MaxRead \in Nat \ {0} /\ ResultRows \in Nat
  /\ RowChars \in Nat \ {0} /\ MetaChars \in Nat

NoCursor == -1

Least(a, b)    == IF a < b THEN a ELSE b
AtLeastZero(n) == IF n < 0 THEN 0 ELSE n

-----------------------------------------------------------------------------
(* One page of a list. *)

\* SELECT ... ORDER BY seq DESC LIMIT limit OFFSET offset, newest first.
Newest(rows, limit, offset) ==
  SubSeq(Reverse(rows), offset + 1, Least(offset + limit, Len(rows)))

\* The cursor restarted at this page: entries between the pages are lost.
PageCursor(cursor, page, total) == IF Len(page) < total THEN cursor + Len(page) + 1 ELSE NoCursor
NextCursor(cursor, page, total) == IF cursor + Len(page) < total THEN cursor + Len(page) ELSE NoCursor

\* total is what the store counted; in SQLite rows may have changed since.
Listed(rows, total, cursor, limit) ==
  IF cursor >= total THEN [page |-> <<>>, next |-> NoCursor]
  ELSE LET page == Newest(rows, IF limit <= 0 THEN total - cursor ELSE limit, cursor)
       IN [page |-> page, next |-> NextCursor(cursor, page, total)]

-----------------------------------------------------------------------------
(* The tools. *)

\* A negative limit is refused before this.
ReadLimit(asked) == Least(IF asked = 0 THEN Least(DefaultRead, MaxRead) ELSE asked, MaxRead)

\* A result that is too long loses its entries and its cursor.
Limited(list) ==
  IF Len(list.page) > ResultRows THEN [page |-> <<>>, next |-> NoCursor, truncated |-> TRUE]
  ELSE [page |-> list.page, next |-> list.next, truncated |-> FALSE]

-----------------------------------------------------------------------------
(* The context. *)

\* The newest limit rows, back in the order they were written.
Window(rows, limit) == Reverse(Listed(rows, Len(rows), 0, limit).page)

\* n rendered entries, one per line.
Chars(n) == IF n = 0 THEN 0 ELSE n * RowChars + (n - 1)

\* The sizes of the blocks: the window of the log, the notes of the diary, and the meta
\* block (time, identity, names, session type), which is never empty.
Blocks(window, notes) == [chat |-> Chars(Len(window)), diary |-> Chars(notes), meta |-> MetaChars]

Overflow(blocks, maxChars) == AtLeastZero(blocks.chat + blocks.diary + blocks.meta - maxChars)

\* What is left of the chat block; 0 is no limit.  It is cut last, after meta and diary.
ChatFirst(blocks, maxChars) ==
  IF maxChars <= 0 THEN blocks.chat
  ELSE AtLeastZero(blocks.chat - Overflow(blocks, maxChars))
KeptChat(blocks, maxChars) ==
  IF maxChars <= 0 THEN blocks.chat
  ELSE LET afterMeta  == AtLeastZero(Overflow(blocks, maxChars) - blocks.meta)
           afterDiary == AtLeastZero(afterMeta - blocks.diary)
       IN AtLeastZero(blocks.chat - afterDiary)

\* The rows of the chat block that the model sees whole: the oldest ones.
SeenRows(window, notes, maxChars) ==
  LET kept == KeptChat(Blocks(window, notes), maxChars)
  IN SubSeq(window, 1, Max({n \in 0 .. Len(window) : Chars(n) <= kept}))
=============================================================================
