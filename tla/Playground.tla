----------------------------- MODULE Playground -----------------------------
(***************************************************************************)
(* The chat of web/default/src/features/playground: the messages, which    *)
(* are saved in the browser on every change, and the server-sent streams   *)
(* that fill in the answers (hooks use-stream-request, use-chat-handler    *)
(* and use-playground-state, lib message-utils and storage, index.tsx).    *)
(*                                                                         *)
(* A handler of the browser is one step, the re-rendering after it         *)
(* included.  A stream is used for one request; it names the messages that *)
(* the request adds.  The text of a message is abstracted to where it came *)
(* from: streams, what the user typed, an error.  config.stream is on:     *)
(* nothing on the page turns it off.                                       *)
(***************************************************************************)
EXTENDS Naturals, Sequences, SequencesExt

CONSTANTS Streams,   \* the requests, one SSE source each
          NoStream,
          NoKey,
          MaxReloads \* bound on how often the page is loaded again

VARIABLES messages,   \* messages, and their copy in localStorage
          editing,    \* editingMessageKey
          source,     \* sseSourceRef
          complete,   \* isStreamCompleteRef
          sse,        \* the sources: "unused", "open" or "closed"
          ended,      \* history: how the request of a stream came to its end
          overlapped, \* history: a request was sent while an answer was being generated
          reloads

vars == <<messages, editing, source, complete, sse, ended, overlapped, reloads>>
pageVars == <<editing, overlapped, reloads>>

Init ==
    /\ messages = <<>> /\ editing = NoKey
    /\ source = NoStream /\ complete = FALSE
    /\ sse = [r \in Streams |-> "unused"] /\ ended = [r \in Streams |-> "no"]
    /\ overlapped = FALSE /\ reloads = 0

isGenerating == source # NoStream

key(m) == [from |-> m.from, of |-> m.of]
isLoading(m) == m.status \in {"loading", "streaming"}

createUserMessage(r) == [from |-> "user", of |-> r, status |-> "none", text |-> {"typed"}]

createLoadingAssistantMessage(r) ==
    [from |-> "assistant", of |-> r, status |-> "loading", text |-> {}]

(* Callbacks change the last message, if that is an answer.                *)
updateLastAssistantMessage(updated) ==
    messages' = IF messages # <<>> /\ Last(messages).from = "assistant"
                THEN [messages EXCEPT ![Len(messages)] = updated]
                ELSE messages

updateAssistantMessageWithError ==
    updateLastAssistantMessage(
        [Last(messages) EXCEPT !.status = "error", !.text = @ \cup {"error"}])

handleStreamUpdate(r) ==
    LET m == Last(messages)
    IN  updateLastAssistantMessage(
            IF m.status = "error" THEN m
            ELSE [m EXCEPT !.status = "streaming", !.text = @ \cup {r}])

handleStreamComplete ==
    LET m == Last(messages)
    IN  updateLastAssistantMessage(
            IF m.status \in {"complete", "error"} THEN m ELSE [m EXCEPT !.status = "complete"])

-----------------------------------------------------------------------------
(* Requests.                                                               *)

(* The shared references now belong to r.                                  *)
sendStreamRequest(r) ==
    /\ sse' = [sse EXCEPT ![r] = "open"]
    /\ source' = r /\ complete' = FALSE

sendChat(r, newMessages) ==
    /\ sse[r] = "unused"
    /\ messages' = newMessages
    /\ sendStreamRequest(r)
    /\ overlapped' = (overlapped \/ isGenerating)
    /\ UNCHANGED <<ended, reloads>>

handleSendMessage(r) ==
    /\ sendChat(r, messages \o <<createUserMessage(r), createLoadingAssistantMessage(r)>>)
    /\ UNCHANGED editing

(* The input is closed while an answer is generated ...                    *)
handleSubmit(r) == ~isGenerating /\ handleSendMessage(r)

(* ... and the suggestions below it are not.                               *)
handleSuggestionClick(r) == handleSendMessage(r)

handleRegenerateMessage(i, r) ==
    /\ ~isGenerating /\ messages[i].from = "assistant" /\ ~isLoading(messages[i])
    /\ sendChat(r, Append(SubSeq(messages, 1, i - 1), createLoadingAssistantMessage(r)))
    /\ UNCHANGED editing

handleEditMessage(i) ==
    /\ ~isGenerating /\ messages[i].text # {} /\ editing # key(messages[i])
    /\ editing' = key(messages[i])
    /\ UNCHANGED <<messages, source, complete, sse, ended, overlapped, reloads>>

handleEditOpenChange ==
    /\ editing # NoKey /\ editing' = NoKey
    /\ UNCHANGED <<messages, source, complete, sse, ended, overlapped, reloads>>

(* applyEdit, which an answer being generated does not stop: the edited    *)
(* message is saved, or it is also sent and what follows it is dropped.    *)
applyEdit(i, r) ==
    LET updated == [messages EXCEPT ![i].text = @ \cup {"typed"}]
    IN  /\ editing = key(messages[i])
        /\ editing' = NoKey
        /\ \/ /\ messages' = updated
              /\ UNCHANGED <<source, complete, sse, ended, overlapped, reloads>>
           \/ /\ messages[i].from = "user"
              /\ sendChat(r, Append(SubSeq(updated, 1, i), createLoadingAssistantMessage(r)))

handleDeleteMessage(i) ==
    /\ ~isGenerating
    /\ messages' = RemoveAt(messages, i)
    /\ UNCHANGED <<editing, source, complete, sse, ended, overlapped, reloads>>

(* stopStream closes what the reference holds.  Mutant: it only forgets it. *)
stopStream_NoClose == source' = NoStream /\ UNCHANGED <<sse, ended>>

stopStream ==
    /\ source' = NoStream
    /\ sse' = [sse EXCEPT ![source] = "closed"]
    /\ ended' = [ended EXCEPT ![source] = IF @ = "no" THEN "stopped" ELSE @]

stopGeneration ==
    /\ isGenerating
    /\ stopStream
    /\ LET m == Last(messages)
       IN  updateLastAssistantMessage(IF isLoading(m) THEN [m EXCEPT !.status = "complete"] ELSE m)
    /\ UNCHANGED <<pageVars, complete>>

-----------------------------------------------------------------------------
(* Events of a stream.                                                     *)

Ends(r, how) == ended' = [ended EXCEPT ![r] = how]

(* closeSource closes its own source and clears the shared reference.      *)
closeSource(r) ==
    /\ sse' = [sse EXCEPT ![r] = "closed"]
    /\ source' = NoStream

onChunk(r) ==
    /\ sse[r] = "open"
    /\ handleStreamUpdate(r)
    /\ UNCHANGED <<pageVars, source, complete, sse, ended>>

onDone(r) ==
    /\ sse[r] = "open"
    /\ complete' = TRUE
    /\ closeSource(r)
    /\ handleStreamComplete
    /\ Ends(r, "done")
    /\ UNCHANGED pageVars

(* A chunk that cannot be parsed: handleError, if the flag is down.        *)
onUnreadable(r) ==
    /\ sse[r] = "open" /\ ~complete
    /\ updateAssistantMessageWithError
    /\ closeSource(r)
    /\ Ends(r, "failed")
    /\ UNCHANGED <<pageVars, complete>>

(* The connection fails: the source closes itself after the event.         *)
onError(r) ==
    /\ sse[r] = "open"
    /\ IF complete
       THEN sse' = [sse EXCEPT ![r] = "closed"] /\ UNCHANGED <<messages, source>>
       ELSE updateAssistantMessageWithError /\ closeSource(r)
    /\ Ends(r, "failed")
    /\ UNCHANGED <<pageVars, complete>>

(* The body ends without [DONE]: there is no event, and only the user can  *)
(* go on, with the stop button.                                            *)
onCut(r) ==
    /\ sse[r] = "open"
    /\ sse' = [sse EXCEPT ![r] = "closed"]
    /\ Ends(r, "cut")
    /\ UNCHANGED <<pageVars, messages, source, complete>>

-----------------------------------------------------------------------------
(* sanitizeMessagesOnLoad settles the last message that was not finished.  *)
Settled(m) == [m EXCEPT !.status = IF m.text # {} THEN "complete" ELSE "error",
                        !.text = IF m.text # {} THEN @ ELSE {"error"}]

sanitizeMessagesOnLoad(ms) ==
    LET target == SelectLastInSeq(ms, isLoading)
    IN  IF target = 0 THEN ms ELSE [ms EXCEPT ![target] = Settled(@)]

(* The page is left or loaded again; its streams are gone.                 *)
loadMessages ==
    /\ reloads < MaxReloads /\ reloads' = reloads + 1
    /\ messages' = sanitizeMessagesOnLoad(messages)
    /\ editing' = NoKey /\ source' = NoStream /\ complete' = FALSE
    /\ sse' = [r \in Streams |-> IF sse[r] = "open" THEN "closed" ELSE sse[r]]
    /\ ended' = [r \in Streams |-> IF sse[r] = "open" \/ ended[r] = "cut" THEN "reloaded" ELSE ended[r]]
    /\ UNCHANGED overlapped

-----------------------------------------------------------------------------
StreamEvent(r) == onChunk(r) \/ onDone(r) \/ onUnreadable(r) \/ onError(r) \/ onCut(r)

Next ==
    \/ \E r \in Streams :
         \/ handleSubmit(r) \/ handleSuggestionClick(r) \/ StreamEvent(r)
         \/ \E i \in DOMAIN messages : handleRegenerateMessage(i, r) \/ applyEdit(i, r)
    \/ \E i \in DOMAIN messages : handleEditMessage(i) \/ handleDeleteMessage(i)
    \/ handleEditOpenChange \/ stopGeneration \/ loadMessages

Spec == Init /\ [][Next]_vars

-----------------------------------------------------------------------------
Answers == {messages[i] : i \in {j \in DOMAIN messages : messages[j].from = "assistant"}}

PlaygroundTypeOK ==
    /\ \A i \in DOMAIN messages :
         messages[i] \in [from : {"user"}, of : Streams, status : {"none"}, text : {{"typed"}}]
             \cup [from : {"assistant"}, of : Streams, status : {"loading", "streaming", "complete", "error"},
                   text : SUBSET (Streams \cup {"typed", "error"})]
    /\ editing \in {NoKey} \cup [from : {"user", "assistant"}, of : Streams]
    /\ source \in Streams \cup {NoStream} /\ complete \in BOOLEAN
    /\ sse \in [Streams -> {"unused", "open", "closed"}]
    /\ ended \in [Streams -> {"no", "done", "failed", "cut", "stopped", "reloaded"}]
    /\ overlapped \in BOOLEAN /\ reloads \in 0 .. MaxReloads

(* Every stream that is open can be stopped with the button, and the page  *)
(* treats its answer as still being generated.                             *)
OpenStreamIsHeld == \A r \in Streams : sse[r] = "open" => source = r

(* The same, as long as no request was sent while one was generating.      *)
OpenStreamIsHeldUnlessOverlapped == overlapped \/ OpenStreamIsHeld

(* An answer holds text of its own request only, whatever was stopped,     *)
(* regenerated, edited or deleted before, with the same proviso.           *)
OwnText == overlapped \/ \A m \in Answers : m.text \cap Streams \subseteq {m.of}

(* An answer that looks unfinished is the last message, and the button     *)
(* that ends it is there, with the same proviso.                           *)
NothingIsStuck ==
    overlapped \/ \A i \in DOMAIN messages :
                    isLoading(messages[i]) => i = Len(messages) /\ source = messages[i].of

(* How an answer is shown is how its request ended: a failure is never     *)
(* passed off as an answer, nor an answer as a failure, with the same      *)
(* proviso.                                                                *)
EndIsTold ==
    overlapped \/ \A m \in Answers :
                    /\ ended[m.of] = "failed" => m.status = "error"
                    /\ m.status = "complete" => ended[m.of] \in {"done", "stopped", "cut", "reloaded"}
                    /\ m.status = "error" => ended[m.of] \in {"failed", "reloaded"}

(* After the messages were loaded from storage none of them looks          *)
(* unfinished.  It does not hold after two requests have overlapped: only  *)
(* the last of two unfinished answers is ended.                            *)
LoadedMessagesAreStable == [][loadMessages => \A i \in DOMAIN messages' : ~isLoading(messages'[i])]_vars
=============================================================================
