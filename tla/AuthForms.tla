----------------------------- MODULE AuthForms -----------------------------
(***************************************************************************)
(* The login and the register form (frontend app/(main)/auth/_components,  *)
(* components/ui/form.tsx).  React Hook Form is external: it validates the *)
(* whole form on submit and, from the first submit on, on every change,    *)
(* but a change updates the error of the changed field only.  Validation   *)
(* is done before the next event of the user.                              *)
(***************************************************************************)
EXTENDS Naturals, Sequences

CONSTANTS Emails,     \* email -> is it well formed?
          Passwords,  \* password -> has it six characters?
          MaxSubmits  \* bound: submits of one form

ASSUME InputAssumption ==
    /\ Emails \in [DOMAIN Emails -> BOOLEAN] /\ Passwords \in [DOMAIN Passwords -> BOOLEAN]
    /\ "" \in DOMAIN Emails \cap DOMAIN Passwords /\ ~Emails[""] /\ ~Passwords[""]

VARIABLES
    form,         \* "login" or "register"
    values,
    errors,       \* field -> its message, "" for none
    isSubmitted,
    submits,      \* how often the form was submitted
    toast,        \* the values of the last toast, or NoToast
    outdated      \* history: the other password has changed since "confirmPassword" was judged

formVars == <<form, values, errors, isSubmitted, submits, toast, outdated>>

Fields == IF form = "login" THEN <<"email", "password", "remember">>
                            ELSE <<"email", "password", "confirmPassword">>
FieldSet == {Fields[i] : i \in DOMAIN Fields}

Inputs(f) == CASE f = "email" -> DOMAIN Emails
               [] f = "remember" -> {"on", "off"}
               [] OTHER -> DOMAIN Passwords

NoToast == [of |-> "nothing"]

-----------------------------------------------------------------------------
(* The schemas.                                                            *)

\* LoginForm's: a field is judged by itself.
LoginError(f, vs) ==
    CASE f = "email" /\ ~Emails[vs[f]]       -> "invalid email"
      [] f = "password" /\ ~Passwords[vs[f]] -> "too short"
      [] OTHER                               -> ""

\* RegisterForm's: a refinement compares the passwords, however short they are,
\* and comes after the other issue of its field.
RegisterError(f, vs) ==
    IF f # "confirmPassword" THEN LoginError(f, vs)
    ELSE IF ~Passwords[vs[f]] THEN "too short"
    ELSE IF vs["password"] # vs[f] THEN "no match" ELSE ""

\* zodResolver: the first issue of every field.
Resolve(vs) == [f \in FieldSet |-> IF form = "login" THEN LoginError(f, vs) ELSE RegisterError(f, vs)]
Valid(vs)   == \A f \in FieldSet : Resolve(vs)[f] = ""

-----------------------------------------------------------------------------
\* Mutant: no defaultValues.
FormInitUndefined ==
    /\ form \in {"login", "register"}
    /\ values = [f \in FieldSet |-> "undefined"]
    /\ errors = [f \in FieldSet |-> ""]
    /\ isSubmitted = FALSE /\ submits = 0 /\ toast = NoToast /\ outdated = FALSE

FormInit ==
    /\ form \in {"login", "register"}
    /\ values = [f \in FieldSet |-> IF f = "remember" THEN "off" ELSE ""]
    /\ errors = [f \in FieldSet |-> ""]
    /\ isSubmitted = FALSE /\ submits = 0 /\ toast = NoToast /\ outdated = FALSE

\* Mutant: fields are judged on submit only.
ChangeUnjudged(f, v) ==
    /\ v # values[f] /\ values' = [values EXCEPT ![f] = v]
    /\ UNCHANGED <<form, errors, isSubmitted, submits, toast, outdated>>

\* field.onChange
Change(f, v) ==
    /\ v # values[f] /\ values' = [values EXCEPT ![f] = v]
    /\ errors' = IF isSubmitted THEN [errors EXCEPT ![f] = Resolve(values')[f]] ELSE errors
    /\ outdated' = CASE f = "password" /\ form = "register" -> isSubmitted
                     [] f = "confirmPassword"               -> FALSE
                     [] OTHER                               -> outdated
    /\ UNCHANGED <<form, isSubmitted, submits, toast>>

\* Mutant: the callback runs whatever the schema says.
SubmitUnchecked ==
    /\ submits < MaxSubmits /\ submits' = submits + 1
    /\ isSubmitted' = TRUE
    /\ errors' = Resolve(values)
    /\ toast' = [of |-> "values", values |-> values]
    /\ outdated' = FALSE
    /\ UNCHANGED <<form, values>>

\* form.handleSubmit(onSubmit)
Submit ==
    /\ submits < MaxSubmits /\ submits' = submits + 1
    /\ isSubmitted' = TRUE
    /\ errors' = Resolve(values)
    /\ toast' = IF Valid(values) THEN [of |-> "values", values |-> values] ELSE toast
    /\ outdated' = FALSE
    /\ UNCHANGED <<form, values>>

FormNext ==
    \/ \E f \in FieldSet : \E v \in Inputs(f) : Change(f, v)
    \/ Submit

FormSpec == FormInit /\ [][FormNext]_formVars

-----------------------------------------------------------------------------
(* What the form shows.                                                    *)

\* FormLabel, FormControl and FormMessage of one field.
Item(f) == [invalid |-> errors[f] # "", message |-> errors[f]]

-----------------------------------------------------------------------------
(* Properties.                                                             *)

FormTypeOK ==
    /\ form \in {"login", "register"} /\ {isSubmitted, outdated} \subseteq BOOLEAN
    /\ \A f \in FieldSet :
          values[f] \in Inputs(f) /\ errors[f] \in {"", "invalid email", "too short", "no match"}

\* Nothing is said before the first submit; after it every message is about the
\* values that are there now, but for the one that compares with another field.
MessagesAreCurrent == \A f \in FieldSet :
    IF isSubmitted
    THEN Item(f).message = Resolve(values)[f] \/ (f = "confirmPassword" /\ outdated)
    ELSE ~Item(f).invalid

\* An outdated message can hide a mismatch, yet no mismatch is ever submitted,
\* and nothing the schema rejects.
SubmittedIsValid == toast # NoToast => Valid(toast.values)
\* What holds of a form in every state: its types, its messages and what it let through.
FormInv == FormTypeOK /\ MessagesAreCurrent /\ SubmittedIsValid
=============================================================================
