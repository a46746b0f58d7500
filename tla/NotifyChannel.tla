----------------------------- MODULE NotifyChannel -----------------------------
(***************************************************************************)
(* Where a workspace's proactive messages go.  A post resolves its channel *)
(* from the stored preference, or discovers one; the preference of a       *)
(* channel nobody has confirmed counts the posts that asked for it, and is *)
(* confirmed by itself after AutoConfirmAfter of them.  A user's reply     *)
(* confirms the channel or names another.  The preference is read and      *)
(* written in separate awaits, and posts and replies interleave there.     *)
(***************************************************************************)
EXTENDS Naturals, FiniteSets

CONSTANTS
    Posts,             \* proactive messages, one resolution each
    BotChannels,       \* channels the bot is a member of
    AutoConfirmAfter,  \* AUTO_CONFIRM_AFTER_UNCONFIRMED_POSTS
    MaxReplies         \* bound on the replies of users

ASSUME NotifyConstants ==
    /\ "none" \notin BotChannels
    /\ AutoConfirmAfter \in Nat \ {0}
    /\ MaxReplies \in Nat

VARIABLES
    pref,      \* the stored preference
    post,      \* where each resolution is, the channel it goes by, the count it read
    replies,   \* replies so far (bound)
    said,      \* history: the channel the last reply confirmed
    prompted,  \* history: of each channel, the posts that asked to confirm it
    overruled  \* history: a write of a resolution that began before the last
               \* reply came after it

notifyVars == <<pref, post, replies, said, prompted, overruled>>

NoChannel == "none"
NoPref == [channel |-> NoChannel, confirmed |-> FALSE, unconfirmedPosts |-> 0]

\* found: the channel is a discovered one.  early: the resolution began before
\* the last reply.
NoPost ==
    [at |-> "new", channel |-> NoChannel, read |-> NoPref, found |-> FALSE, early |-> FALSE]

NotifyInit ==
    /\ pref = NoPref
    /\ post = [p \in Posts |-> NoPost]
    /\ replies = 0
    /\ said = NoChannel
    /\ prompted = [c \in BotChannels |-> {}]
    /\ overruled = FALSE

-----------------------------------------------------------------------------

At(p, where) == post[p].at = where
Move(p, where) == post' = [post EXCEPT ![p].at = where]
OnlyPost == UNCHANGED <<pref, overruled, replies, said, prompted>>

\* setNotifyChannelPref counts from zero again.
SetPref(c, confirmed) ==
    pref' = [channel |-> c, confirmed |-> confirmed, unconfirmedPosts |-> 0]

Wrote(p) == overruled' = (overruled \/ post[p].early)

\* The preference is read: confirmed, or to be asked for, or still to be found.
\* A caller that names a channel itself changes nothing.
ReadPref(p) ==
    /\ At(p, "new")
    /\ post' = [post EXCEPT ![p] = [@ EXCEPT !.channel = pref.channel,
            !.at = IF pref.channel = NoChannel THEN "discover"
                   ELSE IF pref.confirmed THEN "done"
                   ELSE IF pref.unconfirmedPosts < AutoConfirmAfter THEN "increment"
                   ELSE "confirm"]]
    /\ OnlyPost

\* The channels cannot be listed, or there are none: nothing is posted.
DiscoveryFails(p) ==
    /\ At(p, "discover")
    /\ Move(p, "done")
    /\ OnlyPost

\* The model's pick, or the fallback, is stored as unconfirmed.
Discover(p) ==
    /\ At(p, "discover")
    /\ \E c \in BotChannels :
        /\ SetPref(c, FALSE)
        /\ post' = [post EXCEPT ![p] =
                [@ EXCEPT !.channel = c, !.found = TRUE, !.at = "increment"]]
    /\ Wrote(p)
    /\ UNCHANGED <<replies, said, prompted>>

\* incrementUnconfirmedPosts reads the preference ...
ReadCount(p) ==
    /\ At(p, "increment")
    /\ post' = [post EXCEPT ![p].at = "write", ![p].read = pref]
    /\ OnlyPost

\* Mutant: the channel is confirmed one post early.
EnoughEarly(count) == count + 1 >= AutoConfirmAfter

Enough(count) == count >= AutoConfirmAfter

\* ... and writes all of it back with the count it makes of what it read.  Only a
\* post that found the preference looks at the count.
WriteCount(p) ==
    LET count == post[p].read.unconfirmedPosts + 1
        c == post[p].channel
    IN  /\ At(p, "write")
        /\ pref' = [post[p].read EXCEPT !.unconfirmedPosts = count]
        /\ prompted' = [prompted EXCEPT ![c] = @ \cup {p}]
        /\ Move(p, IF ~post[p].found /\ Enough(count) THEN "confirm" ELSE "done")
        /\ Wrote(p)
        /\ UNCHANGED <<replies, said>>

\* Users had their chance: the channel the post goes to is confirmed.
AutoConfirm(p) ==
    /\ At(p, "confirm")
    /\ SetPref(post[p].channel, TRUE)
    /\ Move(p, "done")
    /\ Wrote(p)
    /\ UNCHANGED <<replies, said, prompted>>

\* A reply to a prompt confirms its channel or redirects to another; the
\* product stores it with setNotifyChannelPref.
Reply ==
    /\ replies < MaxReplies
    /\ \E c \in BotChannels : prompted[c] # {}
    /\ \E c \in BotChannels : SetPref(c, TRUE) /\ said' = c
    /\ replies' = replies + 1
    /\ post' = [p \in Posts |-> [post[p] EXCEPT !.early = ~At(p, "new")]]
    /\ overruled' = FALSE
    /\ UNCHANGED prompted

NotifyNext ==
    \/ \E p \in Posts :
        \/ ReadPref(p) \/ DiscoveryFails(p) \/ Discover(p)
        \/ ReadCount(p) \/ WriteCount(p) \/ AutoConfirm(p)
    \/ Reply

NotifySpec == NotifyInit /\ [][NotifyNext]_notifyVars

-----------------------------------------------------------------------------
(* Properties *)

NotifyTypeOK ==
    LET Prefs == [channel: BotChannels \cup {NoChannel}, confirmed: BOOLEAN,
                  unconfirmedPosts: Nat]
    IN  /\ pref \in Prefs
        /\ \A p \in Posts :
            /\ post[p].at \in {"new", "discover", "increment", "write", "confirm", "done"}
            /\ post[p].channel \in BotChannels \cup {NoChannel}
            /\ post[p].read \in Prefs
        /\ replies \in 0..MaxReplies
        /\ prompted \in [BotChannels -> SUBSET Posts]

\* A channel no user confirmed becomes the confirmed one only after posts asked
\* AutoConfirmAfter times, for it or for a channel discovered while it was; and once
\* a user has settled the channel, it stays, unless a post that began to resolve
\* before the reply writes after it (resolveNotifyChannel, incrementUnconfirmedPosts;
\* the note at notify-channel-prefs.ts:86-89 takes such a write for harmless).
UserSettlesChannel ==
    /\ NotifyTypeOK
    /\ said = NoChannel /\ pref.confirmed =>
          Cardinality(UNION {prompted[c] : c \in BotChannels}) >= AutoConfirmAfter
    /\ said # NoChannel /\ ~overruled => pref.confirmed /\ pref.channel = said

=============================================================================
