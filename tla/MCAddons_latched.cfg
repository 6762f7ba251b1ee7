SPECIFICATION AddonsFairSpec
CONSTANTS
    gateway = gateway
    cilium = cilium
    dns = dns
    Builtins <- OneBuiltin
    Dns = dns
    Cni = cilium
    NoAddon = NoAddon
    Priority <- OnePriority
    WithHelm = {cilium, dns}
    WithCRDs = {}
    WithPods = {cilium, dns}
    Scaled = {cilium}
    MaxDisturbances = 1
PROPERTY KeepsConverging
