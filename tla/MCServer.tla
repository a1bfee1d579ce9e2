------------------------------- MODULE MCServer -------------------------------
(***************************************************************************)
(* Files with two steps.  Good workflows w1 in two versions that notify    *)
(* different recipients, another one without notifications, files that     *)
(* Validate turns away (a dependency nobody has, a name taken twice), and  *)
(* one workflow in two files.                                              *)
(***************************************************************************)
EXTENDS Server, TLC

CONSTANTS w1, w2, e1, e2, p1, setup, check

Step(name, trigger, deps) ==
    [name |-> name, trigger |-> trigger, dependsOn |-> deps, input |-> FALSE,
     publish |-> FALSE, topic |-> TRUE, url |-> "ok", method |-> Missing]

Workflow(name, triggers, steps, notifications) ==
    [name |-> name, triggers |-> triggers, steps |-> steps, notifications |-> notifications]

Trigger(type) == [type |-> type, schedule |-> "ok", topic |-> TRUE]
Notify(on, email, sms) == [on |-> on, email |-> email, sms |-> sms]

Publishing(step) == [step EXCEPT !.input = TRUE, !.publish = TRUE]

InOrder == << Publishing(Step(setup, "auto", {})), Step(check, Missing, {setup}) >>
Backwards == << Step(check, "http", {setup}), Step(setup, "queueti", {}) >>
Circle == << Step(setup, "manual", {check}), Step(check, "manual", {setup}) >>

First == Workflow(w1, {Trigger("webhook")}, InOrder, Notify({"*"}, {e1, e2}, {}))
Second == Workflow(w1, {Trigger("cron"), Trigger("queueti")}, Backwards,
                   Notify({"instance.failed"}, {e1}, {p1}))
Other == Workflow(w2, {Trigger("webhook")}, Circle, Missing)

UnknownDependency == Workflow(w2, {}, << Step(setup, "auto", {}), Step(check, "auto", {Missing}) >>, Missing)
SameName == Workflow(w2, {}, << Step(setup, "auto", {}), Step(setup, "auto", {}) >>, Missing)
Files(texts) == {[file |-> i, text |-> texts[i]] : i \in DOMAIN texts}

MCDirectories ==
    {Files(<<First>>), Files(<<Second, Other>>), Files(<<First, Second>>),
     Files(<<UnknownDependency>>), Files(<<SameName>>)}

NoSettings == [key \in Keys |-> Unset]
Set(queue, email, sms) ==
    [key \in Keys |-> CASE key = "queueti.enabled" -> queue
                        [] key = "notifications.email.provider" -> email
                        [] OTHER -> sms]

\* Plain mail by the file, and a provider with a typing error; everything, with
\* the provider of the file overridden; a file that does not parse.
MCEnvironments ==
    {[env |-> Set(Unset, Unset, "twillio"), file |-> Set(Unset, "smtp", Unset)],
     [env |-> Set("true", "sendgrid", Unset), file |-> Set(Unset, "smtp", "twilio")],
     [env |-> NoSettings, file |-> Malformed]}

MCTestLists == {{e1, p1}}

Accepted == {AsGraph(Normalised(text)) : text \in {First, Second, Other}}

=============================================================================
