----------------------------- MODULE AudioManager -----------------------------
(***************************************************************************)
(* LibAudio/AudioManager.cpp: the audio callback asks for one sample of a  *)
(* clip at a time and never waits; a loader thread decodes clips and fills *)
(* blocks of samples.  The callback asks for both through a Mailbox, here  *)
(* step by step, and reads what the loader wrote without any lock.         *)
(*                                                                         *)
(* A clip is named by the hash of its path.  The table of clips and the    *)
(* table of blocks are indexed by a hash modulo their size: which clips    *)
(* share a slot is chosen in the initial state, which blocks share one is  *)
(* the constant BlockSlot.  One channel is modelled; the loader never      *)
(* polls its volume for changes, so that no file ever needs a reload.      *)
(*                                                                         *)
(* The two words of a block's id are not written in one go ("FIXME: Make   *)
(* this atomic", AudioManager.h): the loader stores them in either order.  *)
(***************************************************************************)
EXTENDS Mailbox

CONSTANTS
    Clips,           \* the files asked for
    ClipSlots,       \* indices of audio->audios and audio->paths
    BlockSlots,      \* indices of audio->blocks
    BlockSlot(_),    \* block_slot of a block id
    FramesPerBlock,  \* au_audio_frames_per_block
    Frames,          \* the frames the callback asks for
    HistorySize,     \* size of prefetch_history
    ArenaFinds,      \* paths the loader can resolve before it empties its arena
    MaxOffset        \* bound: no sample is asked for once so much was posted

None == "none"

ASSUME AudioManagerAssumption ==
    /\ FramesPerBlock \in Nat \ {0}
    /\ HistorySize \in Nat \ {0}
    /\ ArenaFinds \in Nat
    /\ Frames \subseteq Int
    /\ None \notin Clips

VARIABLES
    clipSlot,   \* path_slot: which slot each clip's hash picks
    file,       \* what there is at each path: "wav", "other" or "none"
    paths,      \* audio->paths: the path last stored in each slot
    opened,     \* audio->audios[slot].id
    decoded,    \* audio->audios[slot].audio: the clip it was decoded from
    blocks,     \* audio->blocks: id and samples
    history,    \* prefetch_history.buffer, the newest last
    asking,     \* the callback: what it asks for and how far it is
    loading,    \* the loader: what it handles and how far it is
    finds,      \* paths resolved since the loader's arena was emptied
    given_up    \* history: what the loader gave up on, and refused Opens

hashVars   == <<clipSlot, file>>
callVars   == <<paths, history, asking>>
loaderVars == <<opened, decoded, blocks, loading, finds, given_up>>
vars       == <<mailVars, hashVars, callVars, loaderVars>>

Silence  == [clip |-> None, frame |-> 0]
NoId     == [clip |-> None, num |-> 0]
Zeroed   == [id |-> NoId,
             samples |-> [i \in 0 .. FramesPerBlock - 1 |-> Silence]]
NotAsked == [step |-> "idle"]
NotLoad  == [step |-> "none"]

(* au_audio_block_id.                                                      *)
BlockId(clip, frame) == [clip |-> clip, num |-> frame \div FramesPerBlock]

(* au_audio_sample_f64: nothing decoded, nothing heard.                    *)
SampleOf(clip, frame) ==
    IF clip = None THEN Silence ELSE [clip |-> clip, frame |-> frame]

Open(clip) == [kind |-> "open", clip |-> clip]

(* The path is the one stored in the slot of the clip, whosever it is.     *)
PrepareAt(id, path) == [kind |-> "prepare", id |-> id, path |-> path]

Prepare(id) == PrepareAt(id, paths[clipSlot[id.clip]])

(* What the callback posts is mail, and what it asks for has a block.      *)
ASSUME MailAssumption ==
    \A clip \in Clips, frame \in Frames :
        /\ Open(clip) \in Mail
        /\ \A f \in {frame, frame + FramesPerBlock} :
               LET id == BlockId(clip, IF f < 0 THEN 0 ELSE f)
               IN  /\ BlockSlot(id) \in BlockSlots
                   /\ \A path \in Clips \cup {None} :
                          PrepareAt(id, path) \in Mail

Init ==
    /\ MailboxInit
    /\ clipSlot \in [Clips -> ClipSlots]
    /\ file \in [Clips -> {"wav", "other", "none"}]
    /\ paths = [s \in ClipSlots |-> None]
    /\ opened = [s \in ClipSlots |-> None]
    /\ decoded = [s \in ClipSlots |-> None]
    /\ blocks = [b \in BlockSlots |-> Zeroed]
    /\ history = [i \in 1 .. HistorySize |-> NoId]
    /\ asking = NotAsked
    /\ loading = NotLoad
    /\ finds = 0
    /\ given_up = {}

-----------------------------------------------------------------------------
(* The audio callback.                                                     *)

(* A sample is returned, or silence.                                       *)
Return == asking' = NotAsked

(* Mutant: the stored path is not looked at.                               *)
AudioId_Reopens(clip, frame) ==
    LET slot == clipSlot[clip]
        ask(step) == asking' = [step |-> step, clip |-> clip, frame |-> frame]
    IN  /\ asking = NotAsked
        /\ writeOffset < MaxOffset
        /\ paths' = [paths EXCEPT ![slot] = clip]
        /\ IF opened[slot] = clip
           THEN ask("prefetch") /\ UNCHANGED posting
           ELSE ask("open") /\ StartPost(Open(clip))
        /\ UNCHANGED <<boxVars, readerVars, hashVars, history, loaderVars>>

(* au_audio_id: the clip is open; or its path is stored, and it is not     *)
(* ready; or its path is stored now and the loader is asked to open it.    *)
(* A path is one value here, and equal or not.  The code copies the bytes  *)
(* of a path without an end and compares as many as the new path has, so   *)
(* that in a slot that is shared the end of a longer path is left over.    *)
AudioId(clip, frame) ==
    LET slot == clipSlot[clip]
        ask(step) == asking' = [step |-> step, clip |-> clip, frame |-> frame]
    IN  /\ asking = NotAsked
        /\ writeOffset < MaxOffset
        /\ \/ /\ opened[slot] = clip
              /\ ask("prefetch")
              /\ UNCHANGED <<paths, posting>>
           \/ /\ opened[slot] # clip
              /\ paths[slot] = clip
              /\ Return
              /\ UNCHANGED <<paths, posting>>
           \/ /\ opened[slot] # clip
              /\ paths[slot] # clip
              /\ paths' = [paths EXCEPT ![slot] = clip]
              /\ StartPost(Open(clip))
              /\ ask("open")
        /\ UNCHANGED <<boxVars, readerVars, hashVars, history, loaderVars>>

(* The post of an Open returns: an id at once, or the null id.             *)
OpenPosted ==
    /\ asking.step = "open"
    /\ posting.step \in {"posted", "refused"}
    /\ posting' = NotPosting
    /\ \/ /\ posting.step = "posted"
          /\ asking' = [asking EXCEPT !.step = "prefetch"]
          /\ UNCHANGED given_up
       \/ /\ posting.step = "refused"
          /\ Return
          /\ given_up' = given_up \cup {Open(asking.clip)}
    /\ UNCHANGED <<boxVars, readerVars, paths, history, hashVars, opened,
                   decoded, blocks, loading, finds>>

(* The frame au_audio_prefetch is called with: that of the sample, then    *)
(* one in the block after it; a negative one counts as the first.          *)
PrefetchId ==
    LET frame == asking.frame + (IF asking.step = "prefetch next"
                                 THEN FramesPerBlock ELSE 0)
    IN  BlockId(asking.clip, IF frame < 0 THEN 0 ELSE frame)

(* What au_audio_sample does after the first and the second prefetch.      *)
AfterPrefetch ==
    CASE asking.step = "prefetch" ->
            asking' = [asking EXCEPT !.step = "prefetch next"]
      [] asking.step = "prefetch next" /\ asking.frame < 0 -> Return
      [] OTHER -> asking' = [asking EXCEPT !.step = "check"]

InHistory(id) == \E i \in DOMAIN history : history[i] = id

(* au_audio_prefetch up to the post.                                       *)
Prefetch ==
    LET id == PrefetchId
    IN  /\ asking.step \in {"prefetch", "prefetch next"}
        /\ posting = NotPosting
        /\ \/ /\ blocks[BlockSlot(id)].id = id \/ InHistory(id)
              /\ AfterPrefetch
              /\ UNCHANGED posting
           \/ /\ blocks[BlockSlot(id)].id # id /\ ~InHistory(id)
              /\ StartPost(Prepare(id))
              /\ UNCHANGED asking
        /\ UNCHANGED <<boxVars, readerVars, paths, history, hashVars,
                       loaderVars>>

(* Mutant: a refused block is remembered, too.                             *)
PreparePosted_Always ==
    /\ asking.step \in {"prefetch", "prefetch next"}
    /\ posting.step \in {"posted", "refused"}
    /\ history' = Append(Tail(history), PrefetchId)
    /\ posting' = NotPosting
    /\ AfterPrefetch
    /\ UNCHANGED <<boxVars, readerVars, paths, hashVars, loaderVars>>

(* The post of a Prepare returns; only if it went well is it remembered.   *)
PreparePosted ==
    /\ asking.step \in {"prefetch", "prefetch next"}
    /\ posting.step \in {"posted", "refused"}
    /\ history' = IF posting.step = "posted"
                  THEN Append(Tail(history), PrefetchId)
                  ELSE history
    /\ posting' = NotPosting
    /\ AfterPrefetch
    /\ UNCHANGED <<boxVars, readerVars, paths, hashVars, loaderVars>>

(* au_audio_sample: is the block the one asked for?                        *)
Asked == BlockId(asking.clip, asking.frame)

CheckBlock ==
    /\ asking.step = "check"
    /\ IF blocks[BlockSlot(Asked)].id = Asked
       THEN asking' = [asking EXCEPT !.step = "load"]
       ELSE Return
    /\ UNCHANGED <<mailVars, paths, history, hashVars, loaderVars>>

LoadSample ==
    /\ asking.step = "load"
    /\ Return
    /\ UNCHANGED <<mailVars, paths, history, hashVars, loaderVars>>

Callback ==
    \/ \E clip \in Clips, frame \in Frames : AudioId(clip, frame)
    \/ OpenPosted \/ Prefetch \/ PreparePosted \/ CheckBlock \/ LoadSample
    \/ (CheckRoom \/ RefusePost \/ WriteMail \/ SignalReader)
          /\ UNCHANGED <<hashVars, callVars, loaderVars>>

-----------------------------------------------------------------------------
(* The loader thread, audio_manager_loop.                                  *)

(* A round begins: the temporary arena is emptied and the reader tied.     *)
StartRound ==
    /\ reading = "away"
    /\ TieReader
    /\ finds' = 0
    /\ UNCHANGED <<boxVars, slept, posting, hashVars, callVars, opened,
                   decoded, blocks, loading, given_up>>

(* The inner loop ends when the box is found empty, and only then.         *)
EndRound ==
    /\ reading = "awake" /\ loading = NotLoad
    /\ ~Found
    /\ reading' = "away"
    /\ UNCHANGED <<boxVars, slept, tied, posting, hashVars, callVars,
                   loaderVars>>

ReadMail ==
    /\ reading = "awake" /\ loading = NotLoad
    /\ Found
    /\ loading' = [step |-> "find", mail |-> MailAt(readOffset), next |-> 0]
    /\ TakeMail
    /\ UNCHANGED <<ring, readerVars, writeOffset, posting, hashVars, callVars,
                   opened, decoded, blocks, finds, given_up>>

PathOf(m) == IF m.kind = "open" THEN m.clip ELSE m.path

GiveUp == loading' = NotLoad /\ given_up' = given_up \cup {loading.mail}

(* fs_volume_find resolves the path in the temporary arena, which holds so *)
(* many paths and is not emptied within a round, and mounts the file when  *)
(* it is not mounted yet.                                                  *)
FindFile ==
    /\ loading.step = "find"
    /\ IF finds < ArenaFinds /\ file[PathOf(loading.mail)] # "none"
       THEN /\ loading' = [loading EXCEPT !.step = loading.mail.kind]
            /\ UNCHANGED given_up
       ELSE GiveUp
    /\ finds' = IF finds < ArenaFinds THEN finds + 1 ELSE finds
    /\ UNCHANGED <<mailVars, hashVars, callVars, opened, decoded, blocks>>

(* An Open decodes the file into the slot, whosever the slot is ...        *)
Decode ==
    LET clip == loading.mail.clip
    IN  /\ loading.step = "open"
        /\ IF file[clip] = "wav"
           THEN /\ decoded' = [decoded EXCEPT ![clipSlot[clip]] = clip]
                /\ loading' = [loading EXCEPT !.step = "publish"]
                /\ UNCHANGED given_up
           ELSE GiveUp /\ UNCHANGED decoded
        /\ UNCHANGED <<mailVars, hashVars, callVars, opened, blocks, finds>>

(* ... and then tells the callback.                                        *)
Publish ==
    LET clip == loading.mail.clip
    IN  /\ loading.step = "publish"
        /\ opened' = [opened EXCEPT ![clipSlot[clip]] = clip]
        /\ loading' = NotLoad
        /\ UNCHANGED <<mailVars, hashVars, callVars, decoded, blocks, finds,
                       given_up>>

(* Mutant: the block gets its id before its samples.                       *)
FillSample_IdFirst ==
    LET id == loading.mail.id
        i  == loading.next
    IN  /\ loading.step = "prepare"
        /\ i < FramesPerBlock
        /\ blocks' = [blocks EXCEPT
               ![BlockSlot(id)].id = id,
               ![BlockSlot(id)].samples[i] =
                   SampleOf(decoded[clipSlot[id.clip]],
                            id.num * FramesPerBlock + i)]
        /\ loading' = [loading EXCEPT !.next = i + 1]
        /\ UNCHANGED <<mailVars, hashVars, callVars, opened, decoded, finds,
                       given_up>>

(* A Prepare copies sample after sample out of what is in the clip's slot. *)
FillSample ==
    LET id == loading.mail.id
        i  == loading.next
    IN  /\ loading.step = "prepare"
        /\ i < FramesPerBlock
        /\ blocks' = [blocks EXCEPT ![BlockSlot(id)].samples[i] =
                         SampleOf(decoded[clipSlot[id.clip]],
                                  id.num * FramesPerBlock + i)]
        /\ loading' = [loading EXCEPT !.next = i + 1]
        /\ UNCHANGED <<mailVars, hashVars, callVars, opened, decoded, finds,
                       given_up>>

(* The id of a block is two words, stored in either order.                 *)
StoreId ==
    LET id == loading.mail.id
        at == BlockSlot(id)
    IN  /\ loading.step = "prepare"
        /\ loading.next = FramesPerBlock
        /\ \/ blocks[at].id.clip # id.clip
              /\ blocks' = [blocks EXCEPT ![at].id.clip = id.clip]
           \/ blocks[at].id.num # id.num
              /\ blocks' = [blocks EXCEPT ![at].id.num = id.num]
        /\ loading' = IF blocks'[at].id = id THEN NotLoad ELSE loading
        /\ UNCHANGED <<mailVars, hashVars, callVars, opened, decoded, finds,
                       given_up>>

(* The block has the id already: it was prepared before.                   *)
KeepId ==
    LET id == loading.mail.id
    IN  /\ loading.step = "prepare"
        /\ loading.next = FramesPerBlock
        /\ blocks[BlockSlot(id)].id = id
        /\ loading' = NotLoad
        /\ UNCHANGED <<mailVars, hashVars, callVars, opened, decoded, blocks,
                       finds, given_up>>

Loader ==
    \/ StartRound \/ EndRound \/ ReadMail \/ FindFile \/ Decode \/ Publish
    \/ FillSample \/ StoreId \/ KeepId
    \/ FallAsleep /\ UNCHANGED <<hashVars, callVars, loaderVars>>

Next == Callback \/ Loader

Spec == Init /\ [][Next]_vars

(* Both threads keep running; a sleeping loader is woken by a signal only. *)
FairSpec == Spec /\ WF_vars(Callback) /\ WF_vars(Loader)

-----------------------------------------------------------------------------

Sharers(clip) == {c \in Clips : clipSlot[c] = clipSlot[clip]}

Filling(b) ==
    /\ loading # NotLoad
    /\ loading.step = "prepare"
    /\ BlockSlot(loading.mail.id) = b

(* A block that carries an id holds samples of that id, each of a decoded  *)
(* clip: the asked one or one that shares its slot, and silence only if    *)
(* opening the clip failed.  All are of the same clip, unless the loader   *)
(* fills the block once more with what is in the slot now; and only while  *)
(* it fills the block for another id may id and samples disagree           *)
(* (audio_manager_loop, au_audio_sample).                                  *)
BlocksMatch ==
    \A b \in BlockSlots :
        LET id == blocks[b].id
            decodings == Sharers(id.clip) \cup {None}
            OfClip(c, i) ==
                /\ blocks[b].samples[i] =
                       SampleOf(c, id.num * FramesPerBlock + i)
                /\ c = None => Open(id.clip) \in given_up
        IN  id.clip # None /\ (Filling(b) => loading.mail.id = id) =>
            /\ \A i \in 0 .. FramesPerBlock - 1 :
                   \E c \in decodings : OfClip(c, i)
            /\ \/ Filling(b)
               \/ \E c \in decodings :
                     \A i \in 0 .. FramesPerBlock - 1 : OfClip(c, i)

Handling(m) ==
    \/ \E i \in DOMAIN InBox : InBox[i] = m
    \/ loading # NotLoad /\ loading.mail = m
    \/ posting # NotPosting /\ posting.mail = m

(* A block that is not asked for again because it just was is on its way,  *)
(* has been given up, or its place was filled: a refused post leaves no    *)
(* trace in the history (au_audio_prefetch, did_just_prefetch).            *)
PrefetchedComes ==
    \A i \in DOMAIN history :
        LET id == history[i]
        IN  \/ id = NoId
            \/ blocks[BlockSlot(id)].id # NoId
            \/ \E path \in Clips : \/ Handling(PrepareAt(id, path))
                                  \/ PrepareAt(id, path) \in given_up

(* A clip that has its slot for itself is opened once: the loader is not   *)
(* asked again while it opens the clip, nor when it has (au_audio_id).     *)
OpenedOnce ==
    \A clip \in Clips :
        LET opens == {i \in DOMAIN InBox : InBox[i] = Open(clip)}
        IN  Sharers(clip) = {clip} =>
            /\ \A i, j \in opens : i = j
            /\ opened[clipSlot[clip]] = clip => opens = {}
            /\ opens # {} /\ loading # NotLoad => loading.mail # Open(clip)

(* "Not ready": a clip whose path is stored is open, about to be, or never *)
(* will be, since the loader gave up or the post was refused (au_audio_id).*)
NotReadyYet ==
    \A clip \in Clips :
        paths[clipSlot[clip]] = clip /\ Sharers(clip) = {clip} =>
            \/ opened[clipSlot[clip]] = clip
            \/ Handling(Open(clip))
            \/ Open(clip) \in given_up

(* "Not ready": a clip that can be decoded is heard some time after it was *)
(* asked for (au_audio_id, au_audio_sample).                               *)
EventuallyHeard ==
    \A clip \in Clips :
        paths[clipSlot[clip]] = clip
            ~> \/ file[clip] # "wav" \/ opened[clipSlot[clip]] = clip
=============================================================================
