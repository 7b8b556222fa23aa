-------------------------------- MODULE Forms --------------------------------
(***************************************************************************)
(* The forms of the Messages page (Messages.js): the input for a message,  *)
(* the popups that edit a channel's topic and delete a channel, and the    *)
(* dialog that creates one, in one tab (Browser) in front of the messaging *)
(* service (Messaging).  The tab has loaded and receives every event; what *)
(* it fetches is modelled in Chat, the messages a click fetches included.  *)
(* Other users create, edit and delete channels as they like.              *)
(*                                                                         *)
(* A form acts on the channel displayed when its button is pressed, with   *)
(* the name the tab knows, and the dialog acts a second after its button.  *)
(* Events may change what is displayed in between.                         *)
(***************************************************************************)
EXTENDS Messaging

CONSTANTS
  Viewer,          \* the user of the tab
  Typed,           \* bound of the model: the names he types
  MaxTimers        \* bound of the model: creations whose second has not passed

ASSUME FormsAssumption ==
  /\ Viewer \in Users /\ Typed \subseteq Names /\ MaxTimers \in Nat
  /\ Null \notin [id : Channels, doc : Doc]

VARIABLES
  view,            \* the state of the tab (Browser)
  form,            \* the form the user is at
  aim,             \* history: the channel displayed when he turned to it
  inputName,       \* inputChannelName, Null for the empty text
  submittedName,   \* submittedChannelName
  pressed          \* names he has pressed Create for, a second not being over

formVars == <<form, aim>>
nameVars == <<inputName, submittedName, pressed>>
allVars  == <<vars, view, formVars, nameVars>>

Tab == INSTANCE Browser

Current == view.current

-----------------------------------------------------------------------------

\* The list of channels is there.  The lists of messages do not matter here:
\* the one of the first channel is still to come.
LoadedView ==
  Tab!ShowChannels(Tab!EmptyView, <<Tab!Entry(General, DefaultChannel)>>)

FormsInit ==
  /\ Init
  /\ view = LoadedView
  /\ form = "none" /\ aim = Null
  /\ inputName = Null /\ submittedName = Null
  /\ pressed = <<>>

\* What others ask for.  Channels nobody is the creator of, on which a handler
\* throws (Browser), are left to Chat.
OthersArrive(r) ==
  \E u \in Users \ {Viewer} :
    PostChannel(r, u) \/ PatchChannel(r, u) \/ DeleteChannel(r, u)

\* A step of the service and of MongoDB, or of others.
Serve ==
  /\ \/ \E r \in Requests : OthersArrive(r) \/ Advance(r)
     \/ \E b \in background : RunDeletion(b)
  /\ UNCHANGED <<view, formVars, nameVars>>

\* The handler of the websocket's messages.
Receive ==
  /\ Consume
  /\ view' = Tab!Handle(view, Head(queue), Viewer)
  /\ UNCHANGED <<formVars, nameVars>>

-----------------------------------------------------------------------------
(* Turning to a form, and away from it.                                    *)

FormKinds == {"message", "topic", "delete", "create"}

TurnTo(f, c) == form' = f /\ aim' = c

\* open(), handleOpen(), a click on the topic or into the input.
Open ==
  /\ \/ TurnTo("create", Null)
     \/ \E f \in FormKinds \ {"create"} : TurnTo(f, Current.id)
  /\ UNCHANGED <<vars, view, nameVars>>

\* close(), handleClose().  What was typed stays.
Close ==
  /\ TurnTo("none", Null)
  /\ UNCHANGED <<vars, view, nameVars>>

\* A click on a channel of the list closes a popup; what was typed as a
\* message stays in the input.  The dialog covers the list.
Click ==
  /\ form # "create"
  /\ \E i \in 1..Len(view.channels) :
       /\ view' = Tab!Click(view, view.channels[i])
       /\ IF form = "message" THEN TurnTo("message", view.channels[i].id)
          ELSE TurnTo("none", Null)
  /\ UNCHANGED <<vars, nameVars>>

-----------------------------------------------------------------------------
(* The forms about the channel displayed.                                  *)

\* handleNewMessage(): the button, or the return key (pressKeyDown()).
NewMessage(r) ==
  /\ form = "message"
  /\ \E m \in Messages, body \in Bodies :
       /\ Fresh(m)
       /\ Begin(r, "write", "postMessage", Viewer, m, Current.id, body)
  /\ UNCHANGED <<view, formVars, nameVars>>

\* Mutant of EditDescription: the name of the first channel is sent.
EditDescriptionOfFirst(r) ==
  /\ form = "topic"
  /\ Begin(r, "find", "patchChannel", Viewer, Current.id, Null,
           view.channels[1].doc.text)
  /\ UNCHANGED <<view, formVars, nameVars>>

\* handleEditDescription() sends the name along.  It closes the other popup.
EditDescription(r) ==
  /\ form = "topic"
  /\ Begin(r, "find", "patchChannel", Viewer, Current.id, Null,
           Current.doc.text)
  /\ UNCHANGED <<view, formVars, nameVars>>

\* handleDeleteChannel()
DeleteDisplayed(r) ==
  /\ form = "delete"
  /\ Begin(r, "find", "deleteChannel", Viewer, Current.id, Null, Null)
  /\ TurnTo("none", Null)
  /\ UNCHANGED <<view, nameVars>>

-----------------------------------------------------------------------------
(* The dialog that creates a channel.                                      *)

\* handleChange()
TypeName ==
  /\ form = "create"
  /\ inputName' \in Typed \cup {Null}
  /\ UNCHANGED <<vars, view, formVars, submittedName, pressed>>

\* handleNewChannel(): the dialog stays open, its button too.
PressCreate ==
  /\ form = "create"
  /\ Len(pressed) < MaxTimers
  /\ submittedName' = inputName
  /\ pressed' = Append(pressed, inputName)
  /\ UNCHANGED <<vars, view, formVars, inputName>>

\* A second later the inputs are cleared and the dialog is closed.
TimeIsUp ==
  /\ pressed # <<>>
  /\ pressed' = Tail(pressed)
  /\ inputName' = Null
  /\ IF form = "create" THEN TurnTo("none", Null) ELSE UNCHANGED formVars
  /\ UNCHANGED <<view, submittedName>>

\* Mutant of NewChannel: the name is taken from the input.
NewChannelAsTyped(r) ==
  /\ TimeIsUp
  /\ inputName # Null
  /\ \E c \in Channels :
       Fresh(c) /\ Begin(r, "write", "postChannel", Viewer, c, Null, inputName)

\* The name submitted last is sent.
NewChannel(r) ==
  /\ TimeIsUp
  /\ submittedName # Null
  /\ \E c \in Channels :
       /\ Fresh(c)
       /\ Begin(r, "write", "postChannel", Viewer, c, Null, submittedName)

\* The service refuses a channel without a name at once.
NewChannelRefused ==
  /\ TimeIsUp
  /\ submittedName = Null
  /\ UNCHANGED vars

-----------------------------------------------------------------------------

FormsNext ==
  \/ Serve
  \/ Receive
  \/ Open \/ Close \/ Click
  \/ TypeName \/ PressCreate \/ NewChannelRefused
  \/ \E r \in Requests :
       \/ NewMessage(r) \/ EditDescription(r)
       \/ DeleteDisplayed(r) \/ NewChannel(r)

FormsSpec == FormsInit /\ [][FormsNext]_allVars

-----------------------------------------------------------------------------
(* Properties.                                                             *)

\* Type invariant of the forms.
FormsTypeOK ==
  /\ view.channels \in Seq([id : Channels, doc : Doc])
  /\ Current \in [id : Channels, doc : Doc]
  /\ form \in FormKinds \cup {"none"} /\ aim \in Channels \cup {Null}
  /\ {inputName, submittedName} \subseteq Names \cup {Null}
  /\ pressed \in Seq(Names \cup {Null}) /\ Len(pressed) <= MaxTimers

\* The viewer's form sends op for channel c.
Sends(op, c) ==
  \E r \in Requests :
    /\ ~Active(r) /\ req'[r].user = Viewer /\ req'[r].op = op
    /\ c = IF op = "postMessage" THEN req'[r].channel ELSE req'[r].id

\* A change of channel c the tab has not heard of.
Unheard(c) ==
  \/ \E r \in Requests : req[r].op = "patchChannel" /\ req[r].id = c
  \/ \E i \in 1..Len(queue) :
       queue[i].type = "channel-update" /\ queue[i].id = c

\* Editing a topic writes back the name the tab has for the channel.  That is
\* the name the channel has, unless an edit of it is under way or its event
\* has not arrived: nothing else makes the edit undo a change of name.
EditsKeepTheName ==
  [][\A c \in Channels, r \in Requests :
       /\ Sends("patchChannel", c) /\ req'[r].id = c /\ req'[r] # req[r]
       /\ Stored(c) /\ ~Unheard(c)
       => req'[r].text = docs[c].text]_allVars

\* A form used on one channel acts on another only when the first is deleted,
\* or when the other is a channel the user has created, which has appeared
\* under his hand.
ActsOnWhatWasShown ==
  [][\A op \in {"postMessage", "patchChannel", "deleteChannel"},
        c \in Channels :
       Sends(op, c) =>
         \/ c = aim
         \/ ~Stored(aim)
         \/ \E b \in background : b.op = "delete" /\ b.id = aim
         \/ Stored(c) /\ docs[c].creator = Viewer]_allVars

\* A channel is created under a name whose second has just passed or is still
\* to pass, though the name is read a second after the button was pressed, when
\* the dialog may have been typed into, closed, opened again or submitted
\* again.
CreatedAsPressed ==
  [][\A c \in Channels :
       Sends("postChannel", c) =>
         \E i \in 1..Len(pressed), r \in Requests :
           req'[r].id = c /\ req'[r].text = pressed[i]]_allVars

=============================================================================
