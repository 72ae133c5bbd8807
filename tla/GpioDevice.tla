----------------------------- MODULE GpioDevice -----------------------------
(***************************************************************************)
(* The character driver of LAB_GPIO/GPIOs_device_driver/gpio.c:            *)
(* "48 out HIGH" written to /dev/GPIOs_device makes GPIO 48 an output that *)
(* is high.  One buffer takes the commands of all files; m_write clears    *)
(* it, copies the command in at the file's offset and parses it from the   *)
(* start.  A command is what sscanf would find in its text: up to three    *)
(* words, the others Missing; a variable sscanf leaves alone keeps what    *)
(* was on the stack.  At -O2 gpio_count is loaded once for the test at     *)
(* gpio.c:116 and the record at gpio.c:121 (gpio.o, m_write, 2cc to 2f8).  *)
(* A copy and a scan are one step each.  NPAGES * PAGE_SIZE is larger than *)
(* what is ever written.                                                   *)
(***************************************************************************)
EXTENDS GpioOrders, Integers

CONSTANTS
    File,       \* the opens of the device: one at a time each
    Command,    \* what users write to it
    Garbage,    \* what may be on the stack for the variables of m_write
    MAX_GPIOS,  \* the length of gpio_list
    MaxWrites,  \* bound: how many commands are written
    NoGpio,     \* a number that is no GPIO of the board
    Missing     \* a word that is not there

Word == [pin : Pin \cup {NoGpio, Missing},
         mode : {"out", "in", "other", Missing},
         value : {"HIGH", "LOW", "other", Missing}]

ASSUME CommandsAreWords == Command \subseteq Word
ASSUME GarbageIsThere == \A g \in Garbage : g \in Word /\ \A w \in DOMAIN g : g[w] # Missing
ASSUME NumbersAndWords ==
    /\ MAX_GPIOS \in Nat \ {0} /\ MaxWrites \in Nat
    /\ NoGpio \notin Pin /\ NoGpio # Missing
    /\ Missing \notin Pin \cup {"out", "in", "other", "HIGH", "LOW"}

VARIABLES
    module,     \* where GPIOs_init or GPIOs_exit is
    made,       \* what is registered: region, cdev, class, node in /dev
    kmalloc_ptr, \* the buffer's memory: "none", "held" or "freed"
    buffer,     \* what sscanf finds at the start of the buffer
    gpio_list, gpio_count, size,
    call,       \* per file: where its system call is
    offset,     \* per file: in commands
    local,      \* per file: the variables of m_write.  word is what the user
                \* wrote until it is copied, then what was parsed; slot is
                \* gpio_count as loaded; wish is a ghost: the command as long
                \* as no other m_write has run since it began, or Blank
    writes,     \* bounded by MaxWrites
    owed        \* ghost: the pins recorded by a command that was alone

device == <<module, made, kmalloc_ptr, buffer, gpio_list, gpio_count, size,
            call, offset, local, writes, owed>>

Blank == [pin |-> Missing, mode |-> Missing, value |-> Missing]
Unset == [word |-> Blank, slot |-> 0, wish |-> Blank]
Listed == {gpio_list[i] : i \in {j \in DOMAIN gpio_list : j < gpio_count}}
Writing(f) == call[f] \in {"clear", "copy", "parse", "direct", "value", "check", "record"}

DeviceTypes ==
    /\ module \in {"absent", "region", "cdev", "class", "device", "ready",
                   "exit", "failed", "oops"}
    /\ made \subseteq {"region", "cdev", "class", "node"}
    /\ kmalloc_ptr \in {"none", "held", "freed"}
    /\ buffer \in Word
    /\ gpio_list \in [0..(MAX_GPIOS - 1) -> Pin \cup {NoGpio}]
    /\ gpio_count \in 0..MAX_GPIOS
    /\ size \in 0..MaxWrites
    /\ call \in [File -> {"closed", "idle", "clear", "copy", "parse", "direct",
                          "value", "check", "record", "oops"}]
    /\ offset \in [File -> 0..MaxWrites]
    /\ local \in [File -> [word : Word, slot : 0..(MAX_GPIOS - 1), wish : Word]]
    /\ writes \in 0..MaxWrites /\ owed \subseteq Pin

DeviceInit ==
    /\ module = "absent" /\ made = {} /\ kmalloc_ptr = "none" /\ buffer = Blank
    /\ gpio_list = [i \in 0..(MAX_GPIOS - 1) |-> NoGpio]
    /\ gpio_count = 0 /\ size = 0
    /\ call = [f \in File |-> "closed"]
    /\ offset = [f \in File |-> 0]
    /\ local = [f \in File |-> Unset]
    /\ writes = 0 /\ owed = {}

-----------------------------------------------------------------------------
(* GPIOs_init and GPIOs_exit *)

files == <<buffer, gpio_list, gpio_count, size, call, offset, local, writes, owed>>

\* alloc_chrdev_region, cdev_add, class_create and device_create in this
\* order.  The last two return an ERR_PTR when they fail, which is not NULL:
\* the driver goes on without a class or without its node.
Registers ==
    /\ \/ module = "absent" /\ module' = "region" /\ made' = {"region"}
       \/ module = "region" /\ module' = "cdev" /\ made' = made \cup {"cdev"}
       \/ /\ module = "cdev" /\ module' = "class"
          /\ made' \in {made, made \cup {"class"}}
       \/ /\ module = "class" /\ module' = "device"
          /\ made' \in {made} \cup {made \cup {"node"} : c \in made \cap {"class"}}
    /\ kmalloc_ptr' = "none"
    /\ UNCHANGED <<files, board>>

CdevAddFails ==
    /\ module = "region"
    /\ module' = "absent" /\ made' = made \ {"region"}
    /\ UNCHANGED <<kmalloc_ptr, files, board>>

Kmalloc ==
    /\ module = "device"
    /\ module' = "ready" /\ kmalloc_ptr' = "held"
    /\ UNCHANGED <<made, files, board>>

\* rm_device, rm_class, rm_device_numb: nothing deletes the cdev.  To destroy
\* the device of a class that is an ERR_PTR is an oops.
KmallocFails ==
    /\ module = "device"
    /\ IF "class" \in made
       THEN module' = "failed" /\ made' = made \ {"node", "class", "region"}
       ELSE module' = "oops" /\ UNCHANGED made
    /\ UNCHANGED <<kmalloc_ptr, files, board>>

\* rmmod: fops.owner keeps the module while a file is open
Rmmod ==
    /\ module = "ready" /\ \A f \in File : call[f] = "closed"
    /\ module' = "exit"
    /\ UNCHANGED <<made, kmalloc_ptr, files, board>>

\* The loop over gpio_list, which holds pins the driver never requested: the
\* pins of another driver are freed, no others.
ExitFrees ==
    /\ module = "exit"
    /\ Listed \cap requested # {}
    /\ \E n \in Listed \cap requested : FreeGpio(n) /\ Forget({n})
    /\ UNCHANGED device

ExitEnds ==
    /\ module = "exit" /\ Listed \cap requested = {}
    /\ IF "class" \in made THEN module' = "absent" /\ made' = {}
                           ELSE module' = "oops" /\ UNCHANGED made
    /\ kmalloc_ptr' = "freed"
    /\ gpio_list' = [i \in DOMAIN gpio_list |-> NoGpio]
    /\ gpio_count' = 0 /\ size' = 0 /\ buffer' = Blank /\ owed' = {}
    /\ UNCHANGED <<call, offset, local, writes, board>>

Module == Registers \/ CdevAddFails \/ Kmalloc \/ KmallocFails \/ Rmmod \/ ExitFrees \/ ExitEnds

-----------------------------------------------------------------------------
(* The system calls on a file *)

loading == <<module, made, kmalloc_ptr>>
table == <<gpio_list, gpio_count, size>>
Goto(f, to) == call' = [call EXCEPT ![f] = to]
Return(f) == Goto(f, "idle") /\ local' = [local EXCEPT ![f] = Unset]

\* The node is in /dev before the memory is there; a module that is on its
\* way out cannot be opened.
MOpen(f) ==
    /\ call[f] = "closed" /\ "node" \in made /\ module \in {"device", "ready"}
    /\ Goto(f, "idle")
    /\ offset' = [offset EXCEPT ![f] = 0]
    /\ UNCHANGED <<loading, buffer, table, local, writes, owed, board>>

MClose(f) ==
    /\ call[f] = "idle"
    /\ Goto(f, "closed")
    /\ UNCHANGED <<loading, buffer, table, offset, local, writes, owed, board>>

\* mdev.size may have become less than the offset: the length is then
\* negative, the copy fails and the offset stays.
MRead(f) ==
    /\ call[f] = "idle" /\ kmalloc_ptr = "held" /\ offset[f] < size
    /\ offset' = [offset EXCEPT ![f] = size]
    /\ UNCHANGED <<loading, buffer, table, call, local, writes, owed, board>>

\* readme.md: a pin, a direction, and a value for an output
Complete(c) == c.pin \in Pin /\ (c.mode = "in" \/ (c.mode = "out" /\ c.value \in {"HIGH", "LOW"}))

MWrite(f) ==
    /\ call[f] = "idle" /\ writes < MaxWrites
    /\ writes' = writes + 1
    /\ \E c \in Command :
          local' = [g \in File |->
              IF g # f THEN [local[g] EXCEPT !.wish = Blank]
              ELSE [word |-> c, slot |-> 0,
                    wish |-> IF ~Complete(c) \/ offset[f] > 0 \/ \E h \in File : Writing(h)
                             THEN Blank ELSE c]]
    /\ Goto(f, "clear")
    /\ UNCHANGED <<loading, buffer, table, offset, owed, board>>

\* memset through the NULL pointer is an oops, and the file is never closed
Clear(f) ==
    /\ call[f] = "clear"
    /\ IF kmalloc_ptr = "held"
       THEN Goto(f, "copy") /\ buffer' = Blank /\ UNCHANGED local
       ELSE Goto(f, "oops") /\ local' = [local EXCEPT ![f] = Unset] /\ UNCHANGED buffer
    /\ UNCHANGED <<loading, table, offset, writes, owed, board>>

\* At an offset the start of the buffer stays as it is; at the start a
\* command that is shorter than the one it overwrites keeps its last words.
Over(new, old) == [w \in DOMAIN new |-> IF new[w] = Missing THEN old[w] ELSE new[w]]

Copy(f) ==
    /\ call[f] = "copy"
    /\ Goto(f, "parse")
    /\ buffer' = IF offset[f] = 0 THEN Over(local[f].word, buffer) ELSE buffer
    /\ local' = [local EXCEPT ![f].word = Blank]
    /\ UNCHANGED <<loading, table, offset, writes, owed, board>>

CopyFails(f) ==
    /\ call[f] = "copy"
    /\ Return(f)
    /\ UNCHANGED <<loading, buffer, table, offset, writes, owed, board>>

Parse(f) ==
    /\ call[f] = "parse"
    /\ Goto(f, "direct")
    /\ \E stack \in Garbage : local' = [local EXCEPT ![f].word = Over(buffer, stack)]
    /\ UNCHANGED <<loading, buffer, table, offset, writes, owed, board>>

Direct(f) ==
    /\ call[f] = "direct"
    /\ Claim(local[f].word.pin, f)
    /\ \/ /\ local[f].word.mode = "out"
          /\ DirectionOutput(local[f].word.pin) /\ Goto(f, "value")
       \/ /\ local[f].word.mode = "in"
          /\ DirectionInput(local[f].word.pin) /\ Goto(f, "check")
    /\ UNCHANGED <<loading, buffer, table, offset, local, writes, owed, requested>>

\* A value that is neither HIGH nor LOW is an error after the fact: the pin
\* is an output by now.
Value(f) ==
    /\ call[f] = "value" /\ local[f].word.value \in {"HIGH", "LOW"}
    /\ SetValue(local[f].word.pin, local[f].word.value = "HIGH")
    /\ KeepClaim(local[f].word.pin, f)
    /\ Goto(f, "check")
    /\ UNCHANGED <<loading, buffer, table, offset, local, writes, owed, requested>>

Invalid(f) ==
    /\ \/ call[f] = "direct" /\ local[f].word.mode = "other"
       \/ call[f] = "value" /\ local[f].word.value = "other"
       \/ call[f] = "check" /\ gpio_count >= MAX_GPIOS
    /\ Return(f)
    /\ UNCHANGED <<loading, buffer, table, offset, writes, owed, board>>

LoadCount(f) ==
    /\ call[f] = "check"
    /\ Goto(f, "record")
    /\ local' = [local EXCEPT ![f].slot = gpio_count]
    /\ UNCHANGED <<loading, buffer, table, offset, writes, owed, board>>

\* Wrong: one GPIO more than gpio_list has entries.
CheckLate(f) == gpio_count <= MAX_GPIOS /\ LoadCount(f)
Check(f) == gpio_count < MAX_GPIOS /\ LoadCount(f)

\* gpio_list[gpio_count++] = gpio_number, the offset, the size, the return
Wish(c) == IF c.mode = "in" THEN "in" ELSE c.value
RecordAt(f) ==
    /\ call[f] = "record"
    /\ gpio_list' = [gpio_list EXCEPT ![local[f].slot] = local[f].word.pin]
    /\ offset' = [offset EXCEPT ![f] = @ + 1]
    /\ size' = offset[f] + 1
    /\ Return(f)
    /\ LET c == local[f].wish IN
       IF c # Blank THEN Fulfil(c.pin, f, Wish(c)) /\ owed' = owed \cup {c.pin}
                    ELSE UNCHANGED <<asked, owed>>
    /\ UNCHANGED <<loading, buffer, writes, oe, dataout, requested>>

\* Wrong: the next GPIO is recorded in the same entry.
RecordInPlace(f) == RecordAt(f) /\ gpio_count' = local[f].slot
Record(f) == RecordAt(f) /\ gpio_count' = local[f].slot + 1

MWriteStep(f) == Clear(f) \/ Copy(f) \/ CopyFails(f) \/ Parse(f) \/ Direct(f) \/ Value(f)
                    \/ Invalid(f) \/ Check(f) \/ Record(f)

\* After a failed GPIOs_init the module's text is gone, the cdev and the open
\* files are not: what they do then is not modelled.
SystemCall(f) ==
    /\ module # "failed"
    /\ MOpen(f) \/ MClose(f) \/ MRead(f) \/ MWrite(f) \/ MWriteStep(f)

DeviceNext == Module \/ \E f \in File : SystemCall(f)

-----------------------------------------------------------------------------
(* Every pin a command set while no other was written is on the list, for  *)
(* as long as the driver is loaded (gpio.c:121, 132).                      *)
ObeyedAreListed == owed \subseteq Listed
=============================================================================
