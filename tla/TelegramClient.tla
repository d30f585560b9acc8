---------------------------- MODULE TelegramClient ----------------------------
(***************************************************************************)
(* ingestion/telegram_client.py: one message after the other, each posted  *)
(* to every configured chat in turn.  A chat that was turned into a        *)
(* supergroup answers with its new id, which replaces the old one for one  *)
(* more try; any other failure is swallowed.                               *)
(***************************************************************************)
EXTENDS Integers, Sequences, Functions

CONSTANTS
  Chats,          \* how many destinations are configured
  MaxMigrations,  \* bound on the migrations of all chats
  MaxOutages      \* bound on the posts that get no good answer

TelegramAssumption ==
  /\ Chats \in Nat
  /\ MaxMigrations \in Nat
  /\ MaxOutages \in Nat

VARIABLES
  chatIds,     \* _chat_ids
  outbox,      \* the send_message in progress
  serverIds,   \* external: the id each chat answers to
  delivered,   \* history: <<message, chat>> that arrived
  failed       \* history: the chat of each post that got no good answer

vars == <<chatIds, outbox, serverIds, delivered, failed>>

Nothing == [message |-> 0]
Sending(message, chat, retried) ==
  [message |-> message, chat |-> chat, retried |-> retried]

ConfiguredIds == [chat \in 1..Chats |-> 0]

Init ==
  /\ chatIds = ConfiguredIds
  /\ outbox = Nothing
  /\ serverIds = ConfiguredIds
  /\ delivered = {}
  /\ failed = <<>>

\* send_message; without a destination the message is dropped at once.
Send(message) ==
  /\ outbox = Nothing
  /\ outbox' = IF Chats = 0 THEN Nothing ELSE Sending(message, 1, FALSE)
  /\ UNCHANGED <<chatIds, serverIds, delivered, failed>>

\* The next chat, whatever became of the last one.
NextChat ==
  IF outbox.chat = Chats
  THEN Nothing
  ELSE Sending(outbox.message, outbox.chat + 1, FALSE)

Posting == outbox # Nothing
ToCurrentId == chatIds[outbox.chat] = serverIds[outbox.chat]
Arrives == delivered' = delivered \cup {<<outbox.message, outbox.chat>>}

PostSucceeds ==
  /\ Posting
  /\ ToCurrentId
  /\ Arrives
  /\ outbox' = NextChat
  /\ UNCHANGED <<chatIds, serverIds, failed>>

\* Mutant of PostFails: the chats after the one that failed are not tried.
PostFailsForAll ==
  /\ Posting
  /\ Len(failed) < MaxOutages
  /\ failed' = Append(failed, outbox.chat)
  /\ (ToCurrentId /\ Arrives) \/ UNCHANGED delivered
  /\ outbox' = Nothing
  /\ UNCHANGED <<chatIds, serverIds>>

\* A refusal, no connection, or an answer that is late: the message may have
\* arrived.
PostFails ==
  /\ Posting
  /\ Len(failed) < MaxOutages
  /\ failed' = Append(failed, outbox.chat)
  /\ (ToCurrentId /\ Arrives) \/ UNCHANGED delivered
  /\ outbox' = NextChat
  /\ UNCHANGED <<chatIds, serverIds>>

\* Mutant of PostMigrates: the new id is kept, and nothing is sent to it.
PostMigratesOnly ==
  /\ Posting
  /\ ~ToCurrentId
  /\ chatIds' = [chatIds EXCEPT ![outbox.chat] = serverIds[outbox.chat]]
  /\ outbox' = NextChat
  /\ UNCHANGED <<serverIds, delivered, failed>>

\* The answer names the new id; a second one in a row is a failure.
PostMigrates ==
  /\ Posting
  /\ ~ToCurrentId
  /\ chatIds' = [chatIds EXCEPT ![outbox.chat] = serverIds[outbox.chat]]
  /\ outbox' = IF outbox.retried THEN NextChat ELSE [outbox EXCEPT !.retried = TRUE]
  /\ UNCHANGED <<serverIds, delivered, failed>>

Post == PostSucceeds \/ PostFails \/ PostMigrates

\* External: a chat becomes a supergroup.
Migrate(chat) ==
  /\ SumFunction(serverIds) < MaxMigrations
  /\ serverIds' = [serverIds EXCEPT ![chat] = @ + 1]
  /\ UNCHANGED <<chatIds, outbox, delivered, failed>>

=============================================================================
