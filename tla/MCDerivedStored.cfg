SPECIFICATION DerivedSpec
CONSTANTS
    d1 = d1
    d2 = d2
    d3 = d3
    thread1 = thread1
    thread2 = thread2
    f1 = f1
    f2 = f2
    Scenario = {"stored"}
    Fact = {f1, f2}
    QueueCapacity = 2
    MaxVersion = 3
    MaxFailures = 1
    MaxOutages = 2
INVARIANT AnswersExact
